---- MODULE Spec2Model ----
(***************************************************************************)
(* Model of the coriolis data viewer: the slicing / view-mode state        *)
(* machine of DataViewerState (src/src/data_viewer/mod.rs), the key        *)
(* dispatch of run_app (src/src/main.rs), the projections of               *)
(* LoadedVariable and the loading of a variable by read_variable           *)
(* (src/src/data/variable_data.rs), the palettes of                        *)
(* src/src/util/colormaps.rs, the heatmap scale, layout, render loop,      *)
(* crosshair and colour normalisation of draw_heatmap_view and the         *)
(* projections the views and the clipboard copy request                    *)
(* (src/src/data_viewer/ui.rs), and the DimensionCalculator of             *)
(* src/src/util/dimension_calculator.rs.                                   *)
(*                                                                         *)
(* Conventions.  Dimension indices are 0-based as in the source; TLA+      *)
(* sequences are 1-based, so shape[d] of the source is shape[d + 1] here.  *)
(* An Option is a sequence of length at most one (None, Some).  A usize is *)
(* written in two's complement: a value n < 0 stands for the usize         *)
(* 2^64 + n (so -1 is usize::MAX); `as isize` and `as usize` then leave    *)
(* the number unchanged and only the unsigned comparison differs (ULess).  *)
(* The handlers of the keys c (palette), o (scale toggle) and Ctrl-c       *)
(* (clipboard) touch none of the fields of the state machine and are not   *)
(* actions of it; the projections Ctrl-c requests are an operator.         *)
(***************************************************************************)
EXTENDS Integers, Sequences, FiniteSets, TLC

\* Largest rank of a variable the model loads.
MaxRank == 3
\* Largest extent of a dimension (extents range over 0..MaxExtent).
MaxExtent == 2

VARIABLES
    data_viewer,   \* App::data_viewer, the DataViewerState
    lastOp,        \* history: the handler that ran last
    proj,          \* projection harness: the inputs and outputs of one projection call
    raster,        \* rasterizer harness: the inputs and outputs of one heatmap rendering
    load,          \* loader harness: a dataset and the result of read_variable on it
    calc           \* arithmetic harness: the inputs and outputs of one scale_value /
                   \* unscale_value round trip, of one ColorPalette::color call, or
                   \* of the colour normalisation of one heatmap

vars == <<data_viewer, lastOp, proj, raster, load, calc>>

None == << >>
Some(x) == << x >>

Min(a, b) == IF a <= b THEN a ELSE b
Max(a, b) == IF a >= b THEN a ELSE b

\* usize::saturating_sub
saturating_sub(a, b) == IF a >= b THEN a - b ELSE 0

\* unsigned comparison of two usize values in the two's-complement writing
ULess(a, b) == IF (a < 0) = (b < 0) THEN a < b ELSE b < 0
\* usize::min
UMin(a, b) == IF ULess(b, a) THEN b ELSE a

(***************************************************************************)
(* LoadedVariable                                                          *)
(***************************************************************************)

RECURSIVE SeqsUpTo(_, _)
\* all sequences over S of length at most n
SeqsUpTo(S, n) ==
    IF n = 0 THEN {<< >>}
    ELSE LET shorter == SeqsUpTo(S, n - 1)
         IN  shorter \cup {Append(s, x) : s \in {t \in shorter : Len(t) = n - 1}, x \in S}

\* the shapes of the variables a dataset may hold
Shapes == SeqsUpTo(0..MaxExtent, MaxRank)

\* A loaded variable: its shape and its CF scale/offset.  The raw buffer is
\* ArrayD::from_shape_vec(shape, values); element k (row-major) of the model's
\* buffer holds the value k + 1, so distinct elements hold distinct values.
LoadedVariable(shape, scale_factor, add_offset) ==
    [shape |-> shape, scale_factor |-> scale_factor, add_offset |-> add_offset]

\* the defaults read_variable uses when the attributes are absent
DefaultScaleFactor == 1
DefaultAddOffset == 0

ndim(var) == Len(var.shape)

RECURSIVE Offset(_, _, _)
\* row-major offset of the first k components of idx in an array of the given shape
Offset(shape, idx, k) ==
    IF k = 0 THEN 0 ELSE Offset(shape, idx, k - 1) * shape[k] + idx[k]

\* ArrayD::get(IxDyn(idx)): the element, or None when idx is not inside the array
data_get(var, idx) ==
    IF Len(idx) = Len(var.shape) /\ \A k \in 1..Len(idx) : idx[k] >= 0 /\ idx[k] < var.shape[k]
    THEN Some(Offset(var.shape, idx, Len(idx)) + 1)
    ELSE None

\* f64::NAN, the fallback get_2d_slice pushes; every element of the buffer is >= 1
NaN == -1

\* LoadedVariable::scale_value
scale_value(var, raw) == raw * var.scale_factor + var.add_offset

\* transformed without the flag: every element is scaled
transformed_always_scaled(var, raw, apply_scale) == scale_value(var, raw)

\* the value both projections push for a raw element
transformed(var, raw, apply_scale) == IF apply_scale THEN scale_value(var, raw) ELSE raw

\* the index vector get_1d_slice looks up in iteration i
idx_1d(dim, fixed_indices, i) == [fixed_indices EXCEPT ![dim + 1] = i]

RECURSIVE get_1d_slice_from(_, _, _, _, _)
get_1d_slice_from(var, dim, fixed_indices, apply_scale, i) ==
    IF i >= var.shape[dim + 1] THEN << >>
    ELSE LET raw  == data_get(var, idx_1d(dim, fixed_indices, i))
             rest == get_1d_slice_from(var, dim, fixed_indices, apply_scale, i + 1)
         IN  IF raw # None
             THEN <<transformed(var, raw[1], apply_scale)>> \o rest
             ELSE rest

\* LoadedVariable::get_1d_slice
get_1d_slice(var, dim, fixed_indices, apply_scale) ==
    get_1d_slice_from(var, dim, fixed_indices, apply_scale, 0)

\* idx_2d without the assignment idx[dim_y] = y: the stale slice index of dim_y is used
idx_2d_stale_y(dim_y, dim_x, fixed_indices, y, x) ==
    [fixed_indices EXCEPT ![dim_x + 1] = x]

\* the index vector get_2d_slice looks up in iteration (y, x): idx[dim_y] = y, then idx[dim_x] = x
idx_2d(dim_y, dim_x, fixed_indices, y, x) ==
    [[fixed_indices EXCEPT ![dim_y + 1] = y] EXCEPT ![dim_x + 1] = x]

\* get_2d_slice with the loops exchanged: rows over dim_x, columns over dim_y
get_2d_slice_transposed(var, dim_y, dim_x, fixed_indices, apply_scale) ==
    [x1 \in 1..var.shape[dim_x + 1] |->
        [y1 \in 1..var.shape[dim_y + 1] |->
            LET raw == data_get(var, idx_2d(dim_y, dim_x, fixed_indices, y1 - 1, x1 - 1))
            IN  IF raw # None THEN transformed(var, raw[1], apply_scale) ELSE NaN]]

\* LoadedVariable::get_2d_slice
get_2d_slice(var, dim_y, dim_x, fixed_indices, apply_scale) ==
    [y1 \in 1..var.shape[dim_y + 1] |->
        [x1 \in 1..var.shape[dim_x + 1] |->
            LET raw == data_get(var, idx_2d(dim_y, dim_x, fixed_indices, y1 - 1, x1 - 1))
            IN  IF raw # None THEN transformed(var, raw[1], apply_scale) ELSE NaN]]

RECURSIVE total_elements(_, _)
\* LoadedVariable::total_elements: the product of the first k extents (1 for a scalar)
total_elements(shape, k) ==
    IF k = 0 THEN 1 ELSE total_elements(shape, k - 1) * shape[k]

\* var.data.iter().map(..): the whole buffer in row-major order, transformed
data_iter(var, apply_scale) ==
    [k \in 1..total_elements(var.shape, Len(var.shape)) |-> transformed(var, k, apply_scale)]

\* plot1d_data plotting along display_dims.1 instead of display_dims.0
plot1d_data_along_x(var, display_dims, slice_indices, apply_scale) ==
    IF ndim(var) <= 1
    THEN data_iter(var, apply_scale)
    ELSE get_1d_slice(var, display_dims[2], slice_indices, apply_scale)

\* the `data` of draw_plot1d_view
plot1d_data(var, display_dims, slice_indices, apply_scale) ==
    IF ndim(var) <= 1
    THEN data_iter(var, apply_scale)
    ELSE get_1d_slice(var, display_dims[1], slice_indices, apply_scale)

(***************************************************************************)
(* ViewMode, SlicingState                                                  *)
(***************************************************************************)

\* ViewMode::next that never reaches Heatmap: Plot1D goes back to Table
ViewMode_next_two(m) ==
    CASE m = "Table"   -> "Plot1D"
      [] m = "Plot1D"  -> "Table"
      [] m = "Heatmap" -> "Table"

\* ViewMode::next
ViewMode_next(m) ==
    CASE m = "Table"   -> "Plot1D"
      [] m = "Plot1D"  -> "Heatmap"
      [] m = "Heatmap" -> "Table"

\* the filter shared by first_slice_dim and next_dim_selector: dimension i is not displayed
not_displayed(sl, i, is_1d) ==
    IF is_1d
    THEN i # sl.display_dims[1]
    ELSE i # sl.display_dims[1] /\ i # sl.display_dims[2]

\* first_slice_dim that filters with both display dimensions in every view mode
first_slice_dim_both(sl, n, is_1d) ==
    LET cand == {i \in 0..(n - 1) : not_displayed(sl, i, FALSE)}
    IN  IF cand = {} THEN None
        ELSE Some(CHOOSE i \in cand : \A j \in cand : i <= j)

\* SlicingState::first_slice_dim
first_slice_dim(sl, n, is_1d) ==
    LET cand == {i \in 0..(n - 1) : not_displayed(sl, i, is_1d)}
    IN  IF cand = {} THEN None
        ELSE Some(CHOOSE i \in cand : \A j \in cand : i <= j)

\* update_active_selector that keeps any present selector without re-validating it
update_active_selector_keep(sl, n, view_mode) ==
    IF sl.active_dim_selector # None THEN sl
    ELSE [sl EXCEPT !.active_dim_selector = first_slice_dim(sl, n, view_mode = "Plot1D")]

\* SlicingState::update_active_selector
update_active_selector(sl, n, view_mode) ==
    LET is_1d == view_mode = "Plot1D"
        is_valid ==
            /\ sl.active_dim_selector # None
            /\ LET active == sl.active_dim_selector[1]
               IN  active < n /\ not_displayed(sl, active, is_1d)
    IN  IF is_valid THEN sl
        ELSE [sl EXCEPT !.active_dim_selector = first_slice_dim(sl, n, is_1d)]

\* SlicingState::default (derive(Default))
SlicingState_default ==
    [slice_indices |-> << >>, display_dims |-> <<0, 0>>, active_dim_selector |-> None]

\* SlicingState::new with slice indices for the non-displayed dimensions only
SlicingState_new_short(n, view_mode) ==
    update_active_selector(
        [slice_indices       |-> [k \in 1..saturating_sub(n, 2) |-> 0],
         display_dims        |-> IF n >= 2 THEN <<n - 2, n - 1>> ELSE <<0, 0>>,
         active_dim_selector |-> None],
        n, view_mode)

\* SlicingState::new
SlicingState_new(n, view_mode) ==
    update_active_selector(
        [slice_indices       |-> [k \in 1..n |-> 0],
         display_dims        |-> IF n >= 2 THEN <<n - 2, n - 1>> ELSE <<0, 0>>,
         active_dim_selector |-> None],
        n, view_mode)

(***************************************************************************)
(* DataViewerState                                                         *)
(***************************************************************************)

\* DataViewerState::new
DataViewerState_new ==
    [variable        |-> None,
     view_mode       |-> "Table",
     scroll          |-> [row |-> 0, col |-> 0],
     slicing         |-> SlicingState_default,
     visible         |-> FALSE,
     error           |-> None,
     plot_cursor     |-> 0,
     heat_cursor_row |-> 0,
     heat_cursor_col |-> 0]

\* load_variable that keeps the slice indices of the previous variable of the same rank
load_variable_keep_slices(s, var) ==
    LET fresh == SlicingState_new(ndim(var), s.view_mode)
    IN  [s EXCEPT !.slicing         = IF Len(s.slicing.slice_indices) = ndim(var)
                                      THEN [fresh EXCEPT !.slice_indices = s.slicing.slice_indices]
                                      ELSE fresh,
                  !.variable        = Some(var),
                  !.scroll          = [row |-> 0, col |-> 0],
                  !.error           = None,
                  !.visible         = TRUE,
                  !.plot_cursor     = 0,
                  !.heat_cursor_row = 0,
                  !.heat_cursor_col = 0]

\* load_variable that forgets to reset the 1D plot cursor
load_variable_keep_cursor(s, var) ==
    [s EXCEPT !.slicing         = SlicingState_new(ndim(var), s.view_mode),
              !.variable        = Some(var),
              !.scroll          = [row |-> 0, col |-> 0],
              !.error           = None,
              !.visible         = TRUE,
              !.heat_cursor_row = 0,
              !.heat_cursor_col = 0]

\* DataViewerState::load_variable
load_variable(s, var) ==
    [s EXCEPT !.slicing         = SlicingState_new(ndim(var), s.view_mode),
              !.variable        = Some(var),
              !.scroll          = [row |-> 0, col |-> 0],
              !.error           = None,
              !.visible         = TRUE,
              !.plot_cursor     = 0,
              !.heat_cursor_row = 0,
              !.heat_cursor_col = 0]

\* set_error that shows the viewer without the variable but does not store the message
set_error_drop_message(s, msg) ==
    [s EXCEPT !.variable = None, !.visible = TRUE]

\* DataViewerState::set_error
set_error(s, msg) ==
    [s EXCEPT !.error = Some(msg), !.variable = None, !.visible = TRUE]

\* DataViewerState::close
close(s) ==
    [s EXCEPT !.visible = FALSE, !.variable = None, !.error = None]

\* cycle_view_mode that re-validates the selector against the mode it leaves
cycle_view_mode_old_mode(s) ==
    LET m == ViewMode_next(s.view_mode)
    IN  IF s.variable # None
        THEN [s EXCEPT !.view_mode = m,
                       !.slicing = update_active_selector(s.slicing, ndim(s.variable[1]),
                                                          s.view_mode)]
        ELSE [s EXCEPT !.view_mode = m]

\* cycle_view_mode that also returns the table to its first row and column
cycle_view_mode_reset_scroll(s) ==
    LET m == ViewMode_next(s.view_mode)
    IN  IF s.variable # None
        THEN [s EXCEPT !.view_mode = m, !.scroll = [row |-> 0, col |-> 0],
                       !.slicing = update_active_selector(s.slicing, ndim(s.variable[1]), m)]
        ELSE [s EXCEPT !.view_mode = m, !.scroll = [row |-> 0, col |-> 0]]

\* DataViewerState::cycle_view_mode
cycle_view_mode(s) ==
    LET m == ViewMode_next(s.view_mode)
    IN  IF s.variable # None
        THEN [s EXCEPT !.view_mode = m,
                       !.slicing = update_active_selector(s.slicing, ndim(s.variable[1]), m)]
        ELSE [s EXCEPT !.view_mode = m]

\* the `len` of plot_cursor_left / plot_cursor_right
plot_len(s, var) ==
    IF ndim(var) = 1 THEN var.shape[1] ELSE var.shape[s.slicing.display_dims[1] + 1]

\* DataViewerState::plot_cursor_left
plot_cursor_left(s) ==
    IF s.variable = None THEN s
    ELSE LET var == s.variable[1]
         IN  IF ndim(var) = 0 THEN s
             ELSE LET len == plot_len(s, var)
                      c   == saturating_sub(s.plot_cursor, 1)
                  IN  IF len = 0 THEN s
                      ELSE [s EXCEPT !.plot_cursor = IF c >= len THEN len - 1 ELSE c]

\* DataViewerState::plot_cursor_right
plot_cursor_right(s) ==
    IF s.variable = None THEN s
    ELSE LET var == s.variable[1]
         IN  IF ndim(var) = 0 THEN s
             ELSE LET len == plot_len(s, var)
                  IN  IF len = 0 THEN s
                      ELSE [s EXCEPT !.plot_cursor = Min(s.plot_cursor + 1, len - 1)]

\* DataViewerState::move_heat_cursor; r and c are isize, the final `as usize` wraps
move_heat_cursor(s, drow, dcol) ==
    IF s.variable = None THEN s
    ELSE LET var == s.variable[1]
         IN  IF ndim(var) < 2 THEN s
             ELSE LET nr == var.shape[s.slicing.display_dims[1] + 1]
                      nc == var.shape[s.slicing.display_dims[2] + 1]
                      r0 == s.heat_cursor_row + drow
                      c0 == s.heat_cursor_col + dcol
                      r1 == IF r0 < 0 THEN 0 ELSE r0
                      c1 == IF c0 < 0 THEN 0 ELSE c0
                      r2 == IF r1 >= nr THEN nr - 1 ELSE r1
                      c2 == IF c1 >= nc THEN nc - 1 ELSE c1
                  IN  [s EXCEPT !.heat_cursor_row = r2, !.heat_cursor_col = c2]

\* DataViewerState::get_view_rows
get_view_rows(s, var) ==
    IF ndim(var) = 0 THEN 1
    ELSE IF ndim(var) = 1 THEN var.shape[1]
    ELSE var.shape[s.slicing.display_dims[1] + 1]

\* DataViewerState::get_view_cols
get_view_cols(s, var) ==
    IF ndim(var) <= 1 THEN 1 ELSE var.shape[s.slicing.display_dims[2] + 1]

\* DataViewerState::scroll_up
scroll_up(s, amount) ==
    [s EXCEPT !.scroll.row = saturating_sub(s.scroll.row, amount)]

\* DataViewerState::scroll_down
scroll_down(s, amount) ==
    IF s.variable = None THEN s
    ELSE LET max_row == saturating_sub(get_view_rows(s, s.variable[1]), 1)
         IN  [s EXCEPT !.scroll.row = Min(s.scroll.row + amount, max_row)]

\* DataViewerState::scroll_left
scroll_left(s, amount) ==
    [s EXCEPT !.scroll.col = saturating_sub(s.scroll.col, amount)]

\* DataViewerState::scroll_right
scroll_right(s, amount) ==
    IF s.variable = None THEN s
    ELSE LET max_col == saturating_sub(get_view_cols(s, s.variable[1]), 1)
         IN  [s EXCEPT !.scroll.col = Min(s.scroll.col + amount, max_col)]

\* whether dim is displayed, as next_slice computes it
is_display_dim(s, dim) ==
    IF s.view_mode = "Plot1D"
    THEN dim = s.slicing.display_dims[1]
    ELSE dim = s.slicing.display_dims[1] \/ dim = s.slicing.display_dims[2]

\* next_slice without the upper clamp
next_slice_unclamped(s, dim) ==
    IF s.variable = None THEN s
    ELSE LET var == s.variable[1]
         IN  IF dim < ndim(var) /\ ~is_display_dim(s, dim)
             THEN [s EXCEPT !.slicing.slice_indices[dim + 1] =
                                s.slicing.slice_indices[dim + 1] + 1]
             ELSE s

\* DataViewerState::next_slice
next_slice(s, dim) ==
    IF s.variable = None THEN s
    ELSE LET var == s.variable[1]
         IN  IF dim < ndim(var) /\ ~is_display_dim(s, dim)
             THEN LET max == saturating_sub(var.shape[dim + 1], 1)
                  IN  [s EXCEPT !.slicing.slice_indices[dim + 1] =
                                    Min(s.slicing.slice_indices[dim + 1] + 1, max)]
             ELSE s

\* DataViewerState::prev_slice
prev_slice(s, dim) ==
    IF dim < Len(s.slicing.slice_indices)
    THEN [s EXCEPT !.slicing.slice_indices[dim + 1] =
                       saturating_sub(s.slicing.slice_indices[dim + 1], 1)]
    ELSE s

\* the slice_dims of next_dim_selector: the non-displayed dimensions in ascending order
RECURSIVE slice_dims_from(_, _, _, _)
slice_dims_from(sl, n, is_1d, i) ==
    IF i >= n THEN << >>
    ELSE IF not_displayed(sl, i, is_1d)
         THEN <<i>> \o slice_dims_from(sl, n, is_1d, i + 1)
         ELSE slice_dims_from(sl, n, is_1d, i + 1)

slice_dims(sl, n, is_1d) == slice_dims_from(sl, n, is_1d, 0)

\* Iterator::position, as an Option of a 0-based position
position(seq, d) ==
    LET hits == {k \in 1..Len(seq) : seq[k] = d}
    IN  IF hits = {} THEN None
        ELSE Some((CHOOSE k \in hits : \A j \in hits : k <= j) - 1)

\* next_dim_selector that stops on the last slice dimension instead of wrapping
next_dim_selector_no_wrap(s) ==
    IF s.variable = None THEN s
    ELSE LET n        == ndim(s.variable[1])
             is_1d    == s.view_mode = "Plot1D"
             min_dims == IF is_1d THEN 2 ELSE 3
             sd       == slice_dims(s.slicing, n, is_1d)
         IN  IF n < min_dims \/ sd = << >> THEN s
             ELSE IF s.slicing.active_dim_selector = None
                  THEN [s EXCEPT !.slicing.active_dim_selector = Some(sd[1])]
                  ELSE LET pos == position(sd, s.slicing.active_dim_selector[1])
                       IN  IF pos # None
                           THEN [s EXCEPT !.slicing.active_dim_selector =
                                              Some(sd[Min(pos[1] + 1, Len(sd) - 1) + 1])]
                           ELSE [s EXCEPT !.slicing.active_dim_selector = Some(sd[1])]

\* next_dim_selector that filters with both display dimensions in every view mode
next_dim_selector_2d_filter(s) ==
    IF s.variable = None THEN s
    ELSE LET n        == ndim(s.variable[1])
             is_1d    == s.view_mode = "Plot1D"
             min_dims == IF is_1d THEN 2 ELSE 3
             sd       == slice_dims(s.slicing, n, FALSE)
         IN  IF n < min_dims \/ sd = << >> THEN s
             ELSE IF s.slicing.active_dim_selector = None
                  THEN [s EXCEPT !.slicing.active_dim_selector = Some(sd[1])]
                  ELSE LET pos == position(sd, s.slicing.active_dim_selector[1])
                       IN  IF pos # None
                           THEN [s EXCEPT !.slicing.active_dim_selector =
                                              Some(sd[((pos[1] + 1) % Len(sd)) + 1])]
                           ELSE [s EXCEPT !.slicing.active_dim_selector = Some(sd[1])]

\* DataViewerState::next_dim_selector
next_dim_selector(s) ==
    IF s.variable = None THEN s
    ELSE LET n        == ndim(s.variable[1])
             is_1d    == s.view_mode = "Plot1D"
             min_dims == IF is_1d THEN 2 ELSE 3
             sd       == slice_dims(s.slicing, n, is_1d)
         IN  IF n < min_dims \/ sd = << >> THEN s
             ELSE IF s.slicing.active_dim_selector = None
                  THEN [s EXCEPT !.slicing.active_dim_selector = Some(sd[1])]
                  ELSE LET pos == position(sd, s.slicing.active_dim_selector[1])
                       IN  IF pos # None
                           THEN [s EXCEPT !.slicing.active_dim_selector =
                                              Some(sd[((pos[1] + 1) % Len(sd)) + 1])]
                           ELSE [s EXCEPT !.slicing.active_dim_selector = Some(sd[1])]

\* DataViewerState::increment_active_slice
increment_active_slice(s) ==
    IF s.slicing.active_dim_selector # None
    THEN next_slice(s, s.slicing.active_dim_selector[1])
    ELSE s

\* DataViewerState::decrement_active_slice
decrement_active_slice(s) ==
    IF s.slicing.active_dim_selector # None
    THEN prev_slice(s, s.slicing.active_dim_selector[1])
    ELSE s

\* clamp_heat_cursor that clamps the row only
clamp_heat_cursor_row_only(s) ==
    IF s.variable = None THEN s
    ELSE LET var == s.variable[1]
         IN  IF ndim(var) >= 2
             THEN LET rows == var.shape[s.slicing.display_dims[1] + 1]
                  IN  [s EXCEPT
                         !.heat_cursor_row =
                             IF rows > 0 THEN UMin(s.heat_cursor_row, rows - 1) ELSE 0]
             ELSE s

\* DataViewerState::clamp_heat_cursor
clamp_heat_cursor(s) ==
    IF s.variable = None THEN s
    ELSE LET var == s.variable[1]
         IN  IF ndim(var) >= 2
             THEN LET rows == var.shape[s.slicing.display_dims[1] + 1]
                      cols == var.shape[s.slicing.display_dims[2] + 1]
                  IN  [s EXCEPT
                         !.heat_cursor_row =
                             IF rows > 0 THEN UMin(s.heat_cursor_row, rows - 1) ELSE 0,
                         !.heat_cursor_col =
                             IF cols > 0 THEN UMin(s.heat_cursor_col, cols - 1) ELSE 0]
             ELSE s

\* DataViewerState::rotate_display_dims
rotate_display_dims(s) ==
    IF s.variable = None THEN s
    ELSE LET n == ndim(s.variable[1])
         IN  IF n >= 2
             THEN LET swapped ==
                          [s EXCEPT !.slicing.display_dims =
                                        <<s.slicing.display_dims[2], s.slicing.display_dims[1]>>,
                                    !.heat_cursor_row = s.heat_cursor_col,
                                    !.heat_cursor_col = s.heat_cursor_row]
                      clamped == clamp_heat_cursor(swapped)
                  IN  [clamped EXCEPT !.slicing =
                                          update_active_selector(clamped.slicing, n, s.view_mode)]
             ELSE s

\* cycle_display_dim without the collision check of the 2D views
cycle_display_dim_no_skip(s, which) ==
    IF s.variable = None THEN s
    ELSE LET n == ndim(s.variable[1])
         IN  IF n = 0 THEN s
             ELSE LET current == IF which = 0 THEN s.slicing.display_dims[1]
                                 ELSE s.slicing.display_dims[2]
                      next    == (current + 1) % n
                      moved   == IF which = 0
                                 THEN [s EXCEPT !.slicing.display_dims[1] = next]
                                 ELSE [s EXCEPT !.slicing.display_dims[2] = next]
                      clamped == clamp_heat_cursor(moved)
                  IN  [clamped EXCEPT !.slicing =
                                          update_active_selector(clamped.slicing, n, s.view_mode)]

\* DataViewerState::cycle_display_dim
cycle_display_dim(s, which) ==
    IF s.variable = None THEN s
    ELSE LET n == ndim(s.variable[1])
         IN  IF n = 0 THEN s
             ELSE LET is_1d   == s.view_mode = "Plot1D"
                      current == IF which = 0 THEN s.slicing.display_dims[1]
                                 ELSE s.slicing.display_dims[2]
                      next0   == (current + 1) % n
                      other   == IF which = 0 THEN s.slicing.display_dims[2]
                                 ELSE s.slicing.display_dims[1]
                      next    == IF ~is_1d /\ next0 = other THEN (next0 + 1) % n ELSE next0
                      moved   == IF which = 0
                                 THEN [s EXCEPT !.slicing.display_dims[1] = next]
                                 ELSE [s EXCEPT !.slicing.display_dims[2] = next]
                      clamped == clamp_heat_cursor(moved)
                  IN  [clamped EXCEPT !.slicing =
                                          update_active_selector(clamped.slicing, n, s.view_mode)]

(***************************************************************************)
(* run_app: one action per key the viewer handles, and the two outcomes of *)
(* App::toggle_data_viewer when the viewer is closed.                      *)
(***************************************************************************)

Idle == [call |-> "none"]

Init ==
    /\ data_viewer = DataViewerState_new
    /\ lastOp = "new"
    /\ proj = Idle
    /\ raster = Idle
    /\ load = Idle
    /\ calc = Idle

\* the step of one handler: the viewer state it leaves and its name
Handle(next, op) ==
    /\ data_viewer' = next
    /\ lastOp' = op
    /\ UNCHANGED <<proj, raster, load, calc>>

\* toggle_data_viewer, read_variable succeeded
OpenVariable ==
    /\ ~data_viewer.visible
    /\ \E shape \in Shapes :
           Handle(load_variable(data_viewer,
                                LoadedVariable(shape, DefaultScaleFactor, DefaultAddOffset)),
                  "load_variable")

\* toggle_data_viewer, read_variable failed
OpenFails ==
    /\ ~data_viewer.visible
    /\ Handle(set_error(data_viewer, "Failed to load variable"), "set_error")

\* Esc, q, p
KeyClose ==
    /\ data_viewer.visible
    /\ Handle(close(data_viewer), "close")

\* Tab
KeyTab ==
    /\ data_viewer.visible
    /\ Handle(cycle_view_mode(data_viewer), "cycle_view_mode")

\* Up, k
KeyUp ==
    /\ data_viewer.visible
    /\ CASE data_viewer.view_mode = "Table"   -> Handle(scroll_up(data_viewer, 1), "scroll_up")
         [] data_viewer.view_mode = "Heatmap" ->
                Handle(move_heat_cursor(data_viewer, -1, 0), "move_heat_cursor")
         [] data_viewer.view_mode = "Plot1D"  -> Handle(data_viewer, "none")

\* Down, j
KeyDown ==
    /\ data_viewer.visible
    /\ CASE data_viewer.view_mode = "Table"   -> Handle(scroll_down(data_viewer, 1), "scroll_down")
         [] data_viewer.view_mode = "Heatmap" ->
                Handle(move_heat_cursor(data_viewer, 1, 0), "move_heat_cursor")
         [] data_viewer.view_mode = "Plot1D"  -> Handle(data_viewer, "none")

\* Left, h
KeyLeft ==
    /\ data_viewer.visible
    /\ CASE data_viewer.view_mode = "Table"   -> Handle(scroll_left(data_viewer, 1), "scroll_left")
         [] data_viewer.view_mode = "Heatmap" ->
                Handle(move_heat_cursor(data_viewer, 0, -1), "move_heat_cursor")
         [] data_viewer.view_mode = "Plot1D"  ->
                Handle(plot_cursor_left(data_viewer), "plot_cursor_left")

\* Right, l
KeyRight ==
    /\ data_viewer.visible
    /\ CASE data_viewer.view_mode = "Table"   -> Handle(scroll_right(data_viewer, 1), "scroll_right")
         [] data_viewer.view_mode = "Heatmap" ->
                Handle(move_heat_cursor(data_viewer, 0, 1), "move_heat_cursor")
         [] data_viewer.view_mode = "Plot1D"  ->
                Handle(plot_cursor_right(data_viewer), "plot_cursor_right")

\* Ctrl-u
KeyPageScrollUp ==
    /\ data_viewer.visible
    /\ Handle(scroll_up(data_viewer, 10), "scroll_up")

\* Ctrl-d
KeyPageScrollDown ==
    /\ data_viewer.visible
    /\ Handle(scroll_down(data_viewer, 10), "scroll_down")

\* s
KeySelector ==
    /\ data_viewer.visible
    /\ Handle(next_dim_selector(data_viewer), "next_dim_selector")

\* PageUp, ], +, =
KeyIncrement ==
    /\ data_viewer.visible
    /\ Handle(increment_active_slice(data_viewer), "increment_active_slice")

\* PageDown, [, -, _
KeyDecrement ==
    /\ data_viewer.visible
    /\ Handle(decrement_active_slice(data_viewer), "decrement_active_slice")

\* r, R
KeyRotate ==
    /\ data_viewer.visible
    /\ Handle(rotate_display_dims(data_viewer), "rotate_display_dims")

\* y, Y
KeyCycleY ==
    /\ data_viewer.visible
    /\ Handle(cycle_display_dim(data_viewer, 0), "cycle_display_dim")

\* x, X
KeyCycleX ==
    /\ data_viewer.visible
    /\ Handle(cycle_display_dim(data_viewer, 1), "cycle_display_dim")

Next ==
    \/ OpenVariable
    \/ OpenFails
    \/ KeyClose
    \/ KeyTab
    \/ KeyUp
    \/ KeyDown
    \/ KeyLeft
    \/ KeyRight
    \/ KeyPageScrollUp
    \/ KeyPageScrollDown
    \/ KeySelector
    \/ KeyIncrement
    \/ KeyDecrement
    \/ KeyRotate
    \/ KeyCycleY
    \/ KeyCycleX

Spec == Init /\ [][Next]_vars

(***************************************************************************)
(* Properties of the viewer state machine (specification Spec)             *)
(***************************************************************************)

Loaded == data_viewer.variable # None
Var == data_viewer.variable[1]
Rank == ndim(Var)
Slicing == data_viewer.slicing
In2D == data_viewer.view_mode \in {"Table", "Heatmap"}
AllExtentsPositive == \A k \in 1..Rank : Var.shape[k] >= 1

\* C1: in Table or Heatmap mode with a loaded variable of rank >= 2 the two display
\* dimensions differ.
C1_DisplayDimsDistinct ==
    (Loaded /\ Rank >= 2 /\ In2D) => Slicing.display_dims[1] # Slicing.display_dims[2]

\* C2: with a variable loaded, the active selector, when present, is smaller than the
\* rank, differs from display_dims.0, and in Table/Heatmap mode also from display_dims.1.
C2_ActiveSelectorNotDisplayed ==
    (Loaded /\ Slicing.active_dim_selector # None) =>
        LET a == Slicing.active_dim_selector[1]
        IN  /\ a >= 0 /\ a < Rank
            /\ a # Slicing.display_dims[1]
            /\ In2D => a # Slicing.display_dims[2]

\* a display-dimension cycle took the dimension the selector was on, and the selector moved
C2_Witness ==
    /\ Loaded /\ Rank = 3
    /\ lastOp = "cycle_display_dim"
    /\ data_viewer.view_mode = "Table"
    /\ Slicing.display_dims = <<0, 2>>
    /\ Slicing.active_dim_selector = Some(1)

\* C3 as stated: every slice index lies in [0, shape[d] - 1].
C3_SliceIndexInShape ==
    Loaded => \A k \in 1..Rank :
                  Slicing.slice_indices[k] >= 0 /\ Slicing.slice_indices[k] <= Var.shape[k] - 1

\* C3 amended: every slice index lies in [0, max(shape[d], 1) - 1]: inside the extent
\* where the extent is positive, and 0 where the extent is 0.
C3_SliceIndexSaturated ==
    Loaded => \A k \in 1..Rank :
                  /\ Slicing.slice_indices[k] >= 0
                  /\ Slicing.slice_indices[k] <= Max(Var.shape[k], 1) - 1

\* an increment on the active dimension left its index on the last position
C3_Witness ==
    /\ Loaded
    /\ lastOp = "increment_active_slice"
    /\ Slicing.active_dim_selector # None
    /\ LET a == Slicing.active_dim_selector[1]
       IN  Var.shape[a + 1] = MaxExtent /\ Slicing.slice_indices[a + 1] = MaxExtent - 1

\* C4: with a variable loaded, slice_indices has one entry per dimension.
C4_SliceIndicesLenIsRank ==
    Loaded => Len(Slicing.slice_indices) = Rank

\* a variable of the largest rank was loaded and the selector moved since
C4_Witness ==
    /\ Loaded /\ Rank = MaxRank
    /\ lastOp = "next_dim_selector"
    /\ Len(Slicing.slice_indices) = MaxRank

\* the index vectors the current view looks up: get_2d_slice(display_dims.0,
\* display_dims.1, slice_indices) in Table/Heatmap, get_1d_slice(display_dims.0,
\* slice_indices) in Plot1D (rank >= 2; below it the views read the buffer directly)
ViewLookups ==
    IF In2D
    THEN {idx_2d(Slicing.display_dims[1], Slicing.display_dims[2], Slicing.slice_indices, y, x) :
              y \in 0..(Var.shape[Slicing.display_dims[1] + 1] - 1),
              x \in 0..(Var.shape[Slicing.display_dims[2] + 1] - 1)}
    ELSE {idx_1d(Slicing.display_dims[1], Slicing.slice_indices, i) :
              i \in 0..(Var.shape[Slicing.display_dims[1] + 1] - 1)}

\* C8: for a loaded variable of rank >= 2 whose extents are all >= 1, every index vector
\* the current view's projection looks up is inside the array.
C8_FallbackUnreachable ==
    (Loaded /\ Rank >= 2 /\ AllExtentsPositive) =>
        \A idx \in ViewLookups : data_get(Var, idx) # None

\* a view of a rank-3 variable whose sliced dimension sits on its last index
C8_Witness ==
    /\ Loaded /\ Rank = 3 /\ AllExtentsPositive
    /\ data_viewer.view_mode = "Heatmap"
    /\ Slicing.active_dim_selector # None
    /\ Slicing.slice_indices[Slicing.active_dim_selector[1] + 1] = MaxExtent - 1
    /\ Cardinality(ViewLookups) = MaxExtent * MaxExtent

\* C10: with a loaded variable of rank >= 2, two rotate_display_dims in a row restore
\* display_dims and the heatmap crosshair.
C10_RotateTwiceIdentity ==
    (Loaded /\ Rank >= 2) =>
        LET twice == rotate_display_dims(rotate_display_dims(data_viewer))
        IN  /\ twice.slicing.display_dims = Slicing.display_dims
            /\ twice.heat_cursor_row = data_viewer.heat_cursor_row
            /\ twice.heat_cursor_col = data_viewer.heat_cursor_col

\* the dimensions a state displays: display_dims.0 in Plot1D, both in Table/Heatmap
DisplayedDims(s) ==
    IF s.view_mode = "Plot1D"
    THEN {s.slicing.display_dims[1]}
    ELSE {s.slicing.display_dims[1], s.slicing.display_dims[2]}

\* the dimensions of the loaded variable a state does not display
NonDisplayedDims(s) == (0..(ndim(s.variable[1]) - 1)) \ DisplayedDims(s)

\* the smallest element of a non-empty set of numbers
Least(S) == CHOOSE i \in S : \A j \in S : i <= j

RECURSIVE SelectorCalls(_, _)
\* k calls of next_dim_selector in a row
SelectorCalls(s, k) == IF k = 0 THEN s ELSE SelectorCalls(next_dim_selector(s), k - 1)

ModeCycle == <<"Table", "Plot1D", "Heatmap">>

\* the mode after m in ModeCycle, the first after the last
ModeSuccessor(m) ==
    LET k == CHOOSE j \in 1..Len(ModeCycle) : ModeCycle[j] = m
    IN  ModeCycle[(k % Len(ModeCycle)) + 1]

\* C12: every step of cycle_view_mode moves the view mode to its successor in
\* Table -> Plot1D -> Heatmap -> Table, which is another mode, and three calls in a row
\* return to the starting mode.
C12_ViewModeCycle ==
    [][lastOp' = "cycle_view_mode" =>
           /\ data_viewer'.view_mode = ModeSuccessor(data_viewer.view_mode)
           /\ data_viewer'.view_mode # data_viewer.view_mode
           /\ cycle_view_mode(cycle_view_mode(data_viewer')).view_mode
                  = data_viewer.view_mode]_vars

\* the cycle closed on a loaded variable: cycle_view_mode left Heatmap for Table
C12_Witness ==
    /\ Loaded /\ Rank = MaxRank
    /\ lastOp = "cycle_view_mode"
    /\ data_viewer.view_mode = "Table"

\* C13: with a variable loaded (here: one without empty dimensions), next_slice(dim) and
\* prev_slice(dim) leave slice_indices unchanged for every displayed dimension dim.
C13_DisplayedDimNotAdvanced ==
    (Loaded /\ AllExtentsPositive) =>
        \A dim \in DisplayedDims(data_viewer) :
            /\ next_slice(data_viewer, dim).slicing.slice_indices = Slicing.slice_indices
            /\ prev_slice(data_viewer, dim).slicing.slice_indices = Slicing.slice_indices

\* the value the claim gives the display dimension cycle_display_dim(which) changes:
\* (current + 1) mod n, or (current + 2) mod n when a 2D mode would otherwise show the
\* other display dimension twice
CycledDim(s, which) ==
    LET n       == ndim(s.variable[1])
        current == s.slicing.display_dims[which + 1]
        other   == s.slicing.display_dims[2 - which]
    IN  IF s.view_mode # "Plot1D" /\ (current + 1) % n = other
        THEN (current + 2) % n
        ELSE (current + 1) % n

\* C14: on a loaded variable of rank >= 1, cycle_display_dim(which) sets the chosen
\* display dimension to CycledDim and leaves the other display dimension and
\* slice_indices unchanged.
C14_CycleDisplayDimSkipsOther ==
    (Loaded /\ Rank >= 1) =>
        \A which \in {0, 1} :
            LET after == cycle_display_dim(data_viewer, which)
            IN  /\ after.slicing.display_dims[which + 1] = CycledDim(data_viewer, which)
                /\ after.slicing.display_dims[2 - which] = Slicing.display_dims[2 - which]
                /\ after.slicing.slice_indices = Slicing.slice_indices

\* a cycle in Heatmap on a rank-3 variable left dimensions 0 and 1 displayed: Y wrapped
\* from 2 to 0, or X skipped dimension 0
C14_Witness ==
    /\ Loaded /\ Rank = 3
    /\ lastOp = "cycle_display_dim"
    /\ data_viewer.view_mode = "Heatmap"
    /\ Slicing.display_dims = <<0, 1>>
    /\ Slicing.active_dim_selector = Some(2)

\* no variable is loaded, or the loaded variable has no empty dimension
NoEmptyDim == Loaded => AllExtentsPositive

\* C15: after a step of cycle_display_dim or rotate_display_dims on a loaded variable of
\* rank >= 2 (here: one without empty dimensions) the 1D plot cursor is at most
\* shape[display_dims.0] - 1 and the heatmap crosshair is inside
\* shape[display_dims.0] x shape[display_dims.1].
C15_CursorsClampedOnDimChange ==
    [][(/\ lastOp' \in {"cycle_display_dim", "rotate_display_dims"}
        /\ Loaded /\ Rank >= 2 /\ AllExtentsPositive) =>
           LET s    == data_viewer'
               rows == Var.shape[s.slicing.display_dims[1] + 1]
               cols == Var.shape[s.slicing.display_dims[2] + 1]
           IN  /\ s.plot_cursor <= rows - 1
               /\ s.heat_cursor_row >= 0 /\ s.heat_cursor_row <= rows - 1
               /\ s.heat_cursor_col >= 0 /\ s.heat_cursor_col <= cols - 1]_vars

\* C16: a step of rotate_display_dims exchanges display_dims.0 and display_dims.1 on a
\* loaded variable of rank >= 2 in Table or Heatmap mode, and leaves display_dims
\* unchanged otherwise (rank < 2, Plot1D mode).
C16_RotateOnlyIn2D ==
    [][(lastOp' = "rotate_display_dims" /\ NoEmptyDim) =>
           IF Loaded /\ Rank >= 2 /\ In2D
           THEN data_viewer'.slicing.display_dims
                    = <<Slicing.display_dims[2], Slicing.display_dims[1]>>
           ELSE data_viewer'.slicing.display_dims = Slicing.display_dims]_vars

\* the element after a in the ascending order of S, the smallest after the largest
NextInOrder(S, a) ==
    IF \E x \in S : x > a THEN Least({x \in S : x > a}) ELSE Least(S)

\* C17: with a variable loaded, next_dim_selector changes nothing when the rank is below
\* 2 in Plot1D or below 3 in Table/Heatmap; otherwise it moves the selector to the next
\* non-displayed dimension in ascending order, wrapping, so that as many calls as there
\* are non-displayed dimensions return to the start; display_dims and slice_indices
\* never change.
C17_SelectorCyclesSliceDims ==
    Loaded =>
        LET after    == next_dim_selector(data_viewer)
            nd       == NonDisplayedDims(data_viewer)
            sel      == Slicing.active_dim_selector
            min_rank == IF data_viewer.view_mode = "Plot1D" THEN 2 ELSE 3
        IN  /\ after.slicing.display_dims = Slicing.display_dims
            /\ after.slicing.slice_indices = Slicing.slice_indices
            /\ IF Rank < min_rank
               THEN after = data_viewer
               ELSE /\ sel # None
                    /\ sel[1] \in nd
                    /\ after.slicing.active_dim_selector = Some(NextInOrder(nd, sel[1]))
                    /\ SelectorCalls(after, Cardinality(nd) - 1).slicing.active_dim_selector
                           = sel

\* a rank-3 variable in Plot1D with dimension 1 plotted: a call of next_dim_selector
\* moved the selector from dimension 0 to dimension 2
C17_Witness ==
    /\ Loaded /\ Rank = 3
    /\ data_viewer.view_mode = "Plot1D"
    /\ lastOp = "next_dim_selector"
    /\ Slicing.display_dims[1] = 1
    /\ Slicing.active_dim_selector = Some(2)

\* C18: with a variable loaded, cycle_view_mode keeps the active selector when its
\* dimension is not displayed under the new mode; otherwise the selector becomes the
\* smallest dimension not displayed under the new mode, or none when all are displayed.
C18_SelectorRecomputedOnModeChange ==
    Loaded =>
        LET after == cycle_view_mode(data_viewer)
            nd    == NonDisplayedDims([data_viewer EXCEPT
                                           !.view_mode = ModeSuccessor(data_viewer.view_mode)])
            sel   == Slicing.active_dim_selector
        IN  after.slicing.active_dim_selector =
                IF sel # None /\ sel[1] \in nd THEN sel
                ELSE IF nd = {} THEN None
                ELSE Some(Least(nd))

\* a rank-2 variable entered Heatmap from Plot1D: both dimensions are displayed and the
\* selector is none
C18_Witness ==
    /\ Loaded /\ Rank = 2
    /\ lastOp = "cycle_view_mode"
    /\ data_viewer.view_mode = "Heatmap"
    /\ Slicing.display_dims = <<0, 1>>
    /\ Slicing.active_dim_selector = None

\* C19: right after load_variable of a rank-n variable all slice indices are 0,
\* display_dims is (n-2, n-1) for n >= 2 and (0, 0) below, the selector is the smallest
\* dimension not displayed under the current view mode (none if there is none), and plot
\* cursor, heatmap crosshair and scroll are 0.
C19_LoadSeedsDefaults ==
    lastOp = "load_variable" =>
        /\ Loaded
        /\ Slicing.slice_indices = [k \in 1..Rank |-> 0]
        /\ Slicing.display_dims = IF Rank >= 2 THEN <<Rank - 2, Rank - 1>> ELSE <<0, 0>>
        /\ Slicing.active_dim_selector =
               IF NonDisplayedDims(data_viewer) = {} THEN None
               ELSE Some(Least(NonDisplayedDims(data_viewer)))
        /\ data_viewer.plot_cursor = 0
        /\ data_viewer.heat_cursor_row = 0
        /\ data_viewer.heat_cursor_col = 0
        /\ data_viewer.scroll = [row |-> 0, col |-> 0]

\* a rank-3 variable loaded while the view mode a previous session left is Plot1D
C19_Witness ==
    /\ lastOp = "load_variable"
    /\ Loaded /\ Rank = 3
    /\ data_viewer.view_mode = "Plot1D"
    /\ Slicing.display_dims = <<1, 2>>
    /\ Slicing.active_dim_selector = Some(0)

\* C20: the viewer never holds both an error and a variable; right after a failed load
\* the variable is none and the error is recorded; right after a successful load the
\* error is none.
C20_ErrorExcludesVariable ==
    /\ ~(data_viewer.error # None /\ data_viewer.variable # None)
    /\ lastOp = "set_error" => (data_viewer.variable = None /\ data_viewer.error # None)
    /\ lastOp = "load_variable" => (data_viewer.variable # None /\ data_viewer.error = None)

\* a load failed after a session on a variable of the largest rank: the slicing state of
\* that session is still there, the variable is not
C20_Witness ==
    /\ lastOp = "set_error"
    /\ data_viewer.error # None
    /\ data_viewer.variable = None
    /\ Len(Slicing.slice_indices) = MaxRank

\* C27: with a variable of rank >= 2 loaded whose extents are all >= 1, the heatmap
\* crosshair is inside the displayed grid: heat_cursor_row < shape[display_dims.0] and
\* heat_cursor_col < shape[display_dims.1] (as usize: not below 0 either).
C27_CrosshairInsideGrid ==
    (Loaded /\ Rank >= 2 /\ AllExtentsPositive) =>
        /\ data_viewer.heat_cursor_row >= 0
        /\ data_viewer.heat_cursor_row < Var.shape[Slicing.display_dims[1] + 1]
        /\ data_viewer.heat_cursor_col >= 0
        /\ data_viewer.heat_cursor_col < Var.shape[Slicing.display_dims[2] + 1]

\* shape [2,1,2]: the crosshair was moved to the last column, and the row dimension was
\* then cycled to dimension 1, which has one row
C27_Witness ==
    /\ lastOp = "cycle_display_dim"
    /\ Loaded /\ Var.shape = <<2, 1, 2>>
    /\ data_viewer.view_mode = "Heatmap"
    /\ Slicing.display_dims = <<1, 2>>
    /\ data_viewer.heat_cursor_row = 0
    /\ data_viewer.heat_cursor_col = 1

\* C34: with a variable loaded, after load_variable and after every later key, the
\* active selector is present if and only if some dimension is not displayed under the
\* current view mode: in Plot1D exactly when the rank is at least 2, in Table and Heatmap
\* exactly when a dimension differs from both display dimensions; and a present selector
\* names such a dimension.
C34_SelectorPresentIffSliceable ==
    Loaded =>
        LET sel == Slicing.active_dim_selector
        IN  /\ (sel # None) <=> (NonDisplayedDims(data_viewer) # {})
            /\ data_viewer.view_mode = "Plot1D" => ((sel # None) <=> (Rank >= 2))
            /\ In2D =>
                   ((sel # None) <=>
                        \E i \in 0..(Rank - 1) :
                            i # Slicing.display_dims[1] /\ i # Slicing.display_dims[2])
            /\ sel # None => sel[1] \in NonDisplayedDims(data_viewer)

\* a rank-2 variable taken from Table, where both dimensions are displayed and nothing
\* holds the focus, to Plot1D: dimension 0 is plotted and dimension 1 gets the focus
C34_Witness ==
    /\ Loaded /\ Rank = 2
    /\ lastOp = "cycle_view_mode"
    /\ data_viewer.view_mode = "Plot1D"
    /\ Slicing.display_dims = <<0, 1>>
    /\ Slicing.active_dim_selector = Some(1)

(***************************************************************************)
(* The projections as the views call them (specification SpecProjection):  *)
(* one call of get_2d_slice (draw_table_view, draw_heatmap_view) or of the *)
(* plot data (draw_plot1d_view) on inputs the viewer can hold: dimension   *)
(* indices below the rank, one slice index per dimension, each at most     *)
(* max(extent, 1) - 1.                                                     *)
(***************************************************************************)

\* the variable of the end-to-end example: [time = 4, lat = 3, lon = 5]
ExampleShape == <<4, 3, 5>>

\* the slice indices a viewer can hold for a shape
SliceIndicesOf(shape) ==
    {f \in [1..Len(shape) -> 0..MaxExtent] :
         \A k \in 1..Len(shape) : f[k] <= Max(shape[k], 1) - 1}

\* the display dimensions a viewer can hold for a rank
DisplayDimsOf(n) == (0..Max(n - 1, 0)) \X (0..Max(n - 1, 0))

\* scale_factor / add_offset pairs: the defaults and one packed variable
ScaleOffsets == {<<DefaultScaleFactor, DefaultAddOffset>>, <<2, 1>>}

InitProjection ==
    /\ data_viewer = DataViewerState_new
    /\ lastOp = "new"
    /\ raster = Idle
    /\ load = Idle
    /\ calc = Idle
    /\ \E shape \in Shapes \cup {ExampleShape}, so \in ScaleOffsets, b \in BOOLEAN :
         \E dd \in DisplayDimsOf(Len(shape)), f \in SliceIndicesOf(shape) :
             proj = [call |-> "ready", var |-> LoadedVariable(shape, so[1], so[2]),
                     display_dims |-> dd, slice_indices |-> f, apply_scale |-> b,
                     out |-> << >>]

\* draw_table_view / draw_heatmap_view: var.get_2d_slice(row_dim, col_dim, slice_indices, apply_scale)
CallGet2dSlice ==
    /\ proj.call = "ready"
    /\ ndim(proj.var) >= 1
    /\ proj' = [proj EXCEPT !.call = "get_2d_slice",
                            !.out = get_2d_slice(proj.var, proj.display_dims[1],
                                                 proj.display_dims[2], proj.slice_indices,
                                                 proj.apply_scale)]
    /\ UNCHANGED <<data_viewer, lastOp, raster, load, calc>>

\* draw_plot1d_view: the plotted sequence
CallPlot1d ==
    /\ proj.call = "ready"
    /\ proj' = [proj EXCEPT !.call = "plot1d",
                            !.out = plot1d_data(proj.var, proj.display_dims,
                                                proj.slice_indices, proj.apply_scale)]
    /\ UNCHANGED <<data_viewer, lastOp, raster, load, calc>>

NextProjection == CallGet2dSlice \/ CallPlot1d

SpecProjection == InitProjection /\ [][NextProjection]_vars

RECURSIVE ElementAt(_, _, _)
\* reference: the value of the array element at idx, dimensions k..rank, last dimension
\* fastest: 1 + sum over d of idx[d] * (product of the extents after d)
ElementAt(shape, idx, k) ==
    IF k > Len(shape) THEN 1
    ELSE LET stride == total_elements([j \in 1..(Len(shape) - k) |-> shape[k + j]],
                                      Len(shape) - k)
         IN  idx[k] * stride + ElementAt(shape, idx, k + 1)

\* reference: raw * scale_factor + add_offset when the flag is set
Shown(p, raw) == IF p.apply_scale THEN raw * p.var.scale_factor + p.var.add_offset ELSE raw

\* C5: get_2d_slice returns shape[display_dims.0] rows of shape[display_dims.1] columns.
C5_GridHasShapeOfDisplayDims ==
    proj.call = "get_2d_slice" =>
        /\ Len(proj.out) = proj.var.shape[proj.display_dims[1] + 1]
        /\ \A y \in 1..Len(proj.out) :
               Len(proj.out[y]) = proj.var.shape[proj.display_dims[2] + 1]

\* a projection over two dimensions of different extents, rows along the shorter one
C5_Witness ==
    /\ proj.call = "get_2d_slice"
    /\ proj.display_dims[1] # proj.display_dims[2]
    /\ Len(proj.out) = 1
    /\ Len(proj.out[1]) = MaxExtent

PlotElements ==
    \A i \in 1..Len(proj.out) :
        proj.out[i] =
            Shown(proj, ElementAt(proj.var.shape,
                                  [proj.slice_indices EXCEPT ![proj.display_dims[1] + 1] = i - 1],
                                  1))

OtherDimEmpty ==
    \E k \in 1..ndim(proj.var) : k - 1 # proj.display_dims[1] /\ proj.var.shape[k] = 0

ScaledElement(var, raw) == IF raw = NaN THEN NaN ELSE raw * var.scale_factor + var.add_offset

\* C26: a projection call leaves the variable (shape, buffer, scale_factor, add_offset) as
\* it was, and with apply_scale set every element of its result is raw * scale_factor +
\* add_offset of the same element of the projection without the flag.
C26_ScaleAppliedAtExtraction ==
    [][proj'.call \in {"get_2d_slice", "plot1d"} =>
          /\ proj'.var = proj.var
          /\ proj'.apply_scale =>
                 LET raw == IF proj'.call = "get_2d_slice"
                            THEN get_2d_slice(proj'.var, proj'.display_dims[1],
                                              proj'.display_dims[2], proj'.slice_indices, FALSE)
                            ELSE plot1d_data(proj'.var, proj'.display_dims,
                                             proj'.slice_indices, FALSE)
                 IN  /\ Len(proj'.out) = Len(raw)
                     /\ \A i \in 1..Len(raw) :
                            IF proj'.call = "get_2d_slice"
                            THEN /\ Len(proj'.out[i]) = Len(raw[i])
                                 /\ \A j \in 1..Len(raw[i]) :
                                        proj'.out[i][j] = ScaledElement(proj'.var, raw[i][j])
                            ELSE proj'.out[i] = ScaledElement(proj'.var, raw[i])]_vars

\* the end-to-end example with scale_factor 2 and add_offset 1, scaled: data[2, :, :]
C26_Witness ==
    /\ proj.call = "get_2d_slice"
    /\ proj.apply_scale
    /\ proj.var.shape = ExampleShape
    /\ proj.var.scale_factor = 2 /\ proj.var.add_offset = 1
    /\ proj.display_dims = <<1, 2>>
    /\ proj.slice_indices = <<2, 0, 0>>
    /\ proj.out[1] = <<63, 65, 67, 69, 71>>

(***************************************************************************)
(* The heatmap geometry of draw_heatmap_view (specification SpecRaster):   *)
(* one scale computation for a rows x cols projection on a canvas of       *)
(* W character columns by H character rows.  An f64 quotient of two small  *)
(* integers is written as the fraction <<numerator, denominator>>; two     *)
(* such quotients are equal as f64 exactly when the fractions are equal.   *)
(***************************************************************************)

\* largest number of rows / columns of a projection handed to the rasterizer
MaxGrid == 4
\* largest canvas width (columns) and height (character rows)
MaxCanvas == 4

FracLess(a, b) == a[1] * b[2] < b[1] * a[2]
FracEq(a, b) == a[1] * b[2] = b[1] * a[2]
\* f64::min
FracMin(a, b) == IF FracLess(b, a) THEN b ELSE a

\* the scale taken from the height alone
heat_scale_by_height(rows, cols, max_w, max_h) == <<max_h, rows>>

\* draw_heatmap_view: scale = (max_h_pixels / rows).min(max_w_chars / cols)
heat_scale(rows, cols, max_w_chars, max_h_pixels) ==
    FracMin(<<max_h_pixels, rows>>, <<max_w_chars, cols>>)

\* the canvas in pixels: max_w_chars = width, max_h_pixels = height * 2
max_w_chars(width) == width
max_h_pixels(height) == height * 2

(***************************************************************************)
(* The f64 arithmetic of the layout and of the sampling, bit for bit.  A   *)
(* positive f64 is [bits, exp]: a significand of F64Bits bits, most        *)
(* significant first and 1, standing for the integer they spell times      *)
(* 2^exp.  Quotient and product are rounded to nearest, ties to even.      *)
(***************************************************************************)

\* the significand of an f64
F64Bits == 53

\* the arithmetic on significands works on Limb digits at a time, so that a limb
\* times an extent or a remainder times 2^Limb stays a small integer
Limb == 13

RECURSIVE Binary(_)
\* the binary digits of n >= 0, most significant first (none for 0)
Binary(n) == IF n = 0 THEN << >> ELSE Append(Binary(n \div 2), n % 2)

RECURSIVE FromBinary(_)
\* the integer a digit sequence spells
FromBinary(b) ==
    IF b = << >> THEN 0 ELSE 2 * FromBinary(SubSeq(b, 1, Len(b) - 1)) + b[Len(b)]

\* the digit sequence plus one, same length (all ones wrap to all zeros)
Increment(b) ==
    LET zeros == {i \in 1..Len(b) : b[i] = 0}
        last  == IF zeros = {} THEN 0 ELSE CHOOSE i \in zeros : \A j \in zeros : j <= i
    IN  [i \in 1..Len(b) |-> IF i < last THEN b[i] ELSE IF i = last THEN 1 ELSE 0]

\* rounding up: the next significand, or 1000.. one binade higher
round_up(bits, exp) ==
    LET inc == Increment(bits)
    IN  IF inc[1] = 0
        THEN [bits |-> <<1>> \o SubSeq(inc, 1, F64Bits - 1), exp |-> exp + 1]
        ELSE [bits |-> inc, exp |-> exp]

RECURSIVE leading_zeros(_, _)
\* how many times a >= 1 is doubled before the quotient by b reaches 1
leading_zeros(a, b) == IF a >= b THEN 0 ELSE 1 + leading_zeros(2 * a, b)

\* the m binary digits of v < 2^m, most significant first
Digits(v, m) == [i \in 1..m |-> (v \div 2 ^ (m - i)) % 2]

RECURSIVE div_bits(_, _, _)
\* long division: the next m >= 1 quotient digits after remainder r < b, and the
\* remainder they leave, Limb digits at a time
div_bits(r, b, m) ==
    IF m <= Limb
    THEN [out |-> Digits((r * 2 ^ m) \div b, m), r |-> (r * 2 ^ m) % b]
    ELSE LET first == div_bits(r, b, Limb)
             rest  == div_bits(first.r, b, m - Limb)
         IN  [out |-> first.out \o rest.out, r |-> rest.r]

\* a as f64 / b as f64 for integers a, b >= 1: the quotient's first F64Bits
\* significant digits, rounded to nearest, ties to even
f64_div(a, b) ==
    LET z     == leading_zeros(a, b)
        whole == Binary((a * 2 ^ z) \div b)
        frac  == div_bits((a * 2 ^ z) % b, b, F64Bits - Len(whole))
        bits  == whole \o frac.out
        exp   == 0 - z - (F64Bits - Len(whole))
    IN  IF 2 * frac.r > b \/ (2 * frac.r = b /\ bits[F64Bits] = 1)
        THEN round_up(bits, exp)
        ELSE [bits |-> bits, exp |-> exp]

RECURSIVE mul_bits(_, _, _)
\* n times the digits i..F64Bits of bits, Limb digits at a time from the right: the
\* digits i..F64Bits of the product and the carry into digit i - 1
mul_bits(bits, n, i) ==
    IF i > F64Bits THEN [out |-> << >>, carry |-> 0]
    ELSE LET j     == Min(i + Limb - 1, F64Bits)
             m     == j - i + 1
             lower == mul_bits(bits, n, j + 1)
             v     == n * FromBinary(SubSeq(bits, i, j)) + lower.carry
         IN  [out |-> Digits(v % 2 ^ m, m) \o lower.out, carry |-> v \div 2 ^ m]

\* n as f64 * x for an integer n >= 1
f64_mul_uint(n, x) ==
    LET low    == mul_bits(x.bits, n, 1)
        p      == Binary(low.carry) \o low.out
        k      == Len(p) - F64Bits
        kept   == SubSeq(p, 1, F64Bits)
        guard  == IF k >= 1 THEN p[F64Bits + 1] ELSE 0
        sticky == \E i \in (F64Bits + 2)..Len(p) : p[i] = 1
    IN  IF guard = 1 /\ (sticky \/ kept[F64Bits] = 1)
        THEN round_up(kept, x.exp + k)
        ELSE [bits |-> kept, exp |-> x.exp + k]

\* x.floor() as usize, for x below 2^F64Bits
f64_floor(x) ==
    IF F64Bits + x.exp <= 0 THEN 0 ELSE FromBinary(SubSeq(x.bits, 1, F64Bits + x.exp))

\* (n as f64 * x).floor() as usize for an integer n >= 0
floor_mul(n, x) == IF n = 0 THEN 0 ELSE f64_floor(f64_mul_uint(n, x))

\* the scale as the f64 the code holds: the smaller quotient, rounded
scale_f64(scale) == f64_div(scale[1], scale[2])

\* draw_heatmap_view: disp_rows, disp_cols, char_rows and the centering offsets; a
\* negative offset stands for a usize subtraction that underflowed
heat_layout(rows, cols, width, height, scale) ==
    LET disp_rows == Max(floor_mul(rows, scale_f64(scale)), 1)
        disp_cols == Max(floor_mul(cols, scale_f64(scale)), 1)
        char_rows == (disp_rows + 1) \div 2
    IN  [disp_rows |-> disp_rows, disp_cols |-> disp_cols, char_rows |-> char_rows,
         offset_x_chars |-> (max_w_chars(width) - disp_cols) \div 2,
         offset_y_chars |-> (height - char_rows) \div 2]

\* row_step, col_step
heat_step(n, disp) == f64_div(n, disp)

\* (p as f64 * step).floor() as usize, before the clamp
sample_raw(p, step) == floor_mul(p, step)

\* .min(rows - 1), .min(cols - 1)
sample_clamp(i, n) == Min(i, n - 1)

top_y(char_y) == char_y * 2

\* the bottom pixel row taken to be the top one
bottom_y_same(char_y) == top_y(char_y)

bottom_y(char_y) == top_y(char_y) + 1

\* one iteration of the render loop: the character cell of (char_y, px).  A colour is
\* named by the pixel row it is sampled for and the source cell get_color is called
\* with; bottom None is colors.bg0.  The screen position is relative to heatmap_area.x, heatmap_area.y.
heat_cell(r, char_y, px) ==
    LET row_step == heat_step(r.rows, r.disp_rows)
        col_step == heat_step(r.cols, r.disp_cols)
        col_raw  == sample_raw(px, col_step)
        top_raw  == sample_raw(top_y(char_y), row_step)
        bot_raw  == sample_raw(bottom_y(char_y), row_step)
        screen_x == r.offset_x_chars + px
        screen_y == r.offset_y_chars + char_y
    IN  [col_raw |-> col_raw,
         col_idx |-> sample_clamp(col_raw, r.cols),
         top_y |-> top_y(char_y),
         top_raw |-> top_raw,
         top_row_idx |-> sample_clamp(top_raw, r.rows),
         bottom |-> IF bottom_y(char_y) < r.disp_rows
                    THEN Some([y |-> bottom_y(char_y), raw |-> bot_raw,
                               row_idx |-> sample_clamp(bot_raw, r.rows)])
                    ELSE None,
         screen_x |-> screen_x,
         screen_y |-> screen_y,
         drawn |-> screen_x < r.width /\ screen_y < r.height]

\* the render loop: for char_y in 0..char_rows, for px in 0..disp_cols
heat_cells(r) ==
    [c \in (0..(r.char_rows - 1)) \X (0..(r.disp_cols - 1)) |-> heat_cell(r, c[1], c[2])]

\* ((cursor as f64 + 0.5) * (disp as f64) / (n as f64)).floor() as usize, before the
\* .min(): cursor + 0.5 and its product with disp are exact in f64, (2 cursor + 1) *
\* disp halved; the quotient is rounded
marker_raw(cursor, disp, n) ==
    LET q == f64_div((2 * cursor + 1) * disp, n)
    IN  f64_floor([q EXCEPT !.exp = @ - 1])

\* draw_heatmap_view, the crosshair: the cursor clamped to the projection, the marker
\* pixel (cy, cx) and the character cell that takes the marker, relative to
\* heatmap_area.x, heatmap_area.y
heat_marker(r, heat_cursor_row, heat_cursor_col) ==
    LET cursor_row == Min(heat_cursor_row, saturating_sub(r.rows, 1))
        cursor_col == Min(heat_cursor_col, saturating_sub(r.cols, 1))
        cy         == Min(marker_raw(cursor_row, r.disp_rows, r.rows),
                          saturating_sub(r.disp_rows, 1))
        cx         == Min(marker_raw(cursor_col, r.disp_cols, r.cols),
                          saturating_sub(r.disp_cols, 1))
        screen_y   == r.offset_y_chars + cy \div 2
        screen_x   == r.offset_x_chars + cx
    IN  [cursor_row |-> cursor_row, cursor_col |-> cursor_col,
         cy_raw |-> marker_raw(cursor_row, r.disp_rows, r.rows),
         cx_raw |-> marker_raw(cursor_col, r.disp_cols, r.cols),
         cy |-> cy, cx |-> cx, screen_x |-> screen_x, screen_y |-> screen_y,
         drawn |-> screen_x < r.width /\ screen_y < r.height]

\* projections and canvases outside the small ranges, where the rounding of the f64
\* quotient shows: 30 rows on 11 character rows (22 pixel rows), 23 columns on 13
GridsWithRounding == {<<30, 1, 4, 11>>, <<1, 23, 13, 2>>}

\* rows, cols, heatmap_area.width, heatmap_area.height
RasterInputs ==
    ((1..MaxGrid) \X (1..MaxGrid) \X (1..MaxCanvas) \X (1..MaxCanvas)) \cup GridsWithRounding

\* rows and cols are >= 1 and the canvas is not empty: draw_heatmap_view returns before
\* the scale is computed otherwise
InitRaster ==
    /\ data_viewer = DataViewerState_new
    /\ lastOp = "new"
    /\ proj = Idle
    /\ load = Idle
    /\ calc = Idle
    /\ \E inp \in RasterInputs :
           raster = [call |-> "ready", rows |-> inp[1], cols |-> inp[2],
                     width |-> inp[3], height |-> inp[4], scale |-> <<0, 1>>,
                     disp_rows |-> 0, disp_cols |-> 0, char_rows |-> 0,
                     offset_x_chars |-> 0, offset_y_chars |-> 0, cells |-> << >>,
                     marker |-> None]

ComputeScale ==
    /\ raster.call = "ready"
    /\ raster' = [raster EXCEPT !.call = "scale",
                                !.scale = heat_scale(raster.rows, raster.cols,
                                                     max_w_chars(raster.width),
                                                     max_h_pixels(raster.height))]
    /\ UNCHANGED <<data_viewer, lastOp, proj, load, calc>>

ComputeLayout ==
    /\ raster.call = "scale"
    /\ LET l == heat_layout(raster.rows, raster.cols, raster.width, raster.height,
                            raster.scale)
       IN  raster' = [raster EXCEPT !.call = "layout",
                                    !.disp_rows = l.disp_rows,
                                    !.disp_cols = l.disp_cols,
                                    !.char_rows = l.char_rows,
                                    !.offset_x_chars = l.offset_x_chars,
                                    !.offset_y_chars = l.offset_y_chars]
    /\ UNCHANGED <<data_viewer, lastOp, proj, load, calc>>

Render ==
    /\ raster.call = "layout"
    /\ raster' = [raster EXCEPT !.call = "render", !.cells = heat_cells(raster)]
    /\ UNCHANGED <<data_viewer, lastOp, proj, load, calc>>

\* the crosshair, drawn after the raster; heat_cursor_row and heat_cursor_col are the
\* viewer's, possibly beyond a projection that has shrunk
DrawCursor ==
    /\ raster.call = "render"
    /\ \E heat_cursor_row \in 0..raster.rows, heat_cursor_col \in 0..raster.cols :
           raster' = [raster EXCEPT !.call = "cursor",
                                    !.marker = Some(heat_marker(raster, heat_cursor_row,
                                                                heat_cursor_col))]
    /\ UNCHANGED <<data_viewer, lastOp, proj, load, calc>>

NextRaster == ComputeScale \/ ComputeLayout \/ Render \/ DrawCursor

SpecRaster == InitRaster /\ [][NextRaster]_vars

MaxLen == 3

F(n) == [c |-> "fin", n |-> n]
F64_NAN == [c |-> "nan", n |-> 0]
F64_INFINITY == [c |-> "inf", n |-> 1]
F64_NEG_INFINITY == [c |-> "inf", n |-> -1]

\* n * 2^1022, finite for 0 < |n| < HugeLimit
Huge(n) == [c |-> "huge", n |-> n]

\* f64::MAX is (2 - 2^-52) * 2^1023: the first multiple of 2^1022 that is not finite
HugeLimit == 4

\* f64::is_finite
is_finite(v) == v.c \in {"fin", "huge"}

Sign(n) == IF n > 0 THEN 1 ELSE IF n < 0 THEN -1 ELSE 0

Abs(n) == IF n < 0 THEN 0 - n ELSE n

\* the f64 of n / d (d > 0) in units of 2^1022: zero, a huge value, or an infinity
from_huge(n, d) ==
    IF n = 0 THEN [c |-> "fin", n |-> 0, d |-> 1]
    ELSE IF Abs(n) >= HugeLimit * d THEN [c |-> "inf", n |-> Sign(n), d |-> 1]
    ELSE [c |-> "huge", n |-> n, d |-> d]

\* f64 arithmetic on fractions: a value is [c, n, d] with d > 0
acc_mul(a, b) ==
    IF a.c = "nan" \/ b.c = "nan" THEN [c |-> "nan", n |-> 0, d |-> 1]
    ELSE IF a.c = "inf" \/ b.c = "inf"
         THEN IF a.n = 0 \/ b.n = 0 THEN [c |-> "nan", n |-> 0, d |-> 1]
              ELSE [c |-> "inf", n |-> Sign(a.n) * Sign(b.n), d |-> 1]
    ELSE IF a.c = "huge" /\ b.c = "huge"
         THEN [c |-> "inf", n |-> Sign(a.n) * Sign(b.n), d |-> 1]
    ELSE IF a.c = "huge" \/ b.c = "huge" THEN from_huge(a.n * b.n, a.d * b.d)
    ELSE [c |-> "fin", n |-> a.n * b.n, d |-> a.d * b.d]

acc_add(a, b) ==
    IF a.c = "nan" \/ b.c = "nan" THEN [c |-> "nan", n |-> 0, d |-> 1]
    ELSE IF a.c = "inf" /\ b.c = "inf"
         THEN (IF a.n = b.n THEN a ELSE [c |-> "nan", n |-> 0, d |-> 1])
    ELSE IF a.c = "inf" THEN a
    ELSE IF b.c = "inf" THEN b
    ELSE IF a.c = "huge" /\ b.c = "huge"
         THEN from_huge(a.n * b.d + b.n * a.d, a.d * b.d)
    ELSE IF a.c = "huge" THEN a
    ELSE IF b.c = "huge" THEN b
    ELSE [c |-> "fin", n |-> a.n * b.d + b.n * a.d, d |-> a.d * b.d]

acc_sub(a, b) == acc_add(a, [b EXCEPT !.n = 0 - b.n])

\* a / count as f64, count >= 1
acc_div(a, count) == IF a.c \in {"fin", "huge"} THEN [a EXCEPT !.d = a.d * count] ELSE a

\* a < b (false when either is NaN)
acc_lt(a, b) ==
    LET tier(x) == IF x.c = "inf" THEN 2 * x.n ELSE IF x.c = "huge" THEN Sign(x.n) ELSE 0
    IN  IF a.c = "nan" \/ b.c = "nan" THEN FALSE
        ELSE IF tier(a) # tier(b) THEN tier(a) < tier(b)
        ELSE a.c # "inf" /\ a.n * b.d < b.n * a.d

\* an f64 whose finite values are whole numbers, as a fraction and back
acc_of(v) == [c |-> v.c, n |-> v.n, d |-> 1]
f64_of(a) == [c |-> a.c, n |-> a.n]

\* f64 multiplication
f64_mul(a, b) == f64_of(acc_mul(acc_of(a), acc_of(b)))

\* f64 addition
f64_add(a, b) == f64_of(acc_add(acc_of(a), acc_of(b)))

\* a < b on f64 (false when either is NaN)
f64_lt(a, b) == acc_lt(acc_of(a), acc_of(b))


\* Err(CoriolisError::NetCDF(message)), the only variant read_variable builds; the
\* message is cut at its fixed prefix
NetCDF(message) == [ok |-> FALSE, err |-> [kind |-> "NetCDF", message |-> message]]
Ok(value) == [ok |-> TRUE, value |-> value]

\* the element types read_variable_array converts to f64
ArrayTypes == {"F64", "F32", "I64", "I32", "I16", "I8", "U64", "U32", "U16", "U8"}
\* the element types try_load_coordinate converts to f64
CoordinateTypes == {"F64", "F32", "I64", "I32", "I16", "U32", "U16"}

\* netcdf::File::variable
file_variable(ds, path) == ds.entries[path]

\* the text of an attribute parsed as f64: s.parse::<f64>().ok()
parse_f64(s) == IF s.c = "text" THEN None ELSE Some(s)

\* attributes.get(name).and_then(|s| s.parse::<f64>().ok()).unwrap_or(default)
attr_or(attr, default) ==
    IF attr = None THEN default
    ELSE IF parse_f64(attr[1]) = None THEN default
    ELSE parse_f64(attr[1])[1]

\* ArrayD::from_shape_vec(IxDyn(shape), v) in read_variable_array
from_vec(shape, v) ==
    IF Len(v) = total_elements(shape, Len(shape))
    THEN Ok(v)
    ELSE NetCDF("Invalid shape/data size")

read_variable_array(var, shape) ==
    IF var.vartype \in ArrayTypes
    THEN IF var.read = None
         THEN NetCDF("Failed to read data")
         ELSE from_vec(shape, var.read[1])
    ELSE IF var.vartype \in {"Char", "String"}
         THEN NetCDF("Character/string data cannot be visualized")
         ELSE NetCDF("Unsupported variable type")

\* read_variable: the value the statistics see for a raw element
stat_value(raw, scale_factor, add_offset) == f64_add(f64_mul(raw, scale_factor), add_offset)

\* the accumulators before the loop
welford_init ==
    [min |-> F64_INFINITY, max |-> F64_NEG_INFINITY, count |-> 0,
     mean_accum |-> acc_of(F(0)), m2 |-> acc_of(F(0))]

\* one iteration of the loop over data.iter()
welford_step(acc, raw, scale_factor, add_offset) ==
    LET v == stat_value(raw, scale_factor, add_offset)
    IN  IF ~is_finite(v) THEN acc
        ELSE LET count  == acc.count + 1
                 delta  == acc_sub(acc_of(v), acc.mean_accum)
                 mean   == acc_add(acc.mean_accum, acc_div(delta, count))
                 delta2 == acc_sub(acc_of(v), mean)
             IN  [min |-> IF f64_lt(v, acc.min) THEN v ELSE acc.min,
                  max |-> IF f64_lt(acc.max, v) THEN v ELSE acc.max,
                  count |-> count,
                  mean_accum |-> mean,
                  m2 |-> acc_add(acc.m2, acc_mul(delta, delta2))]

RECURSIVE welford(_, _, _, _)
\* the loop over the first k elements of the buffer
welford(data, k, scale_factor, add_offset) ==
    IF k = 0 THEN welford_init
    ELSE welford_step(welford(data, k - 1, scale_factor, add_offset), data[k],
                      scale_factor, add_offset)

\* std is present from one valid element on
std_present_from_one(count) == count > 0

\* let std = if count > 1 { Some(..) } else { None }
std_present(count) == count > 1

\* min_max, mean, std, valid_count; std is sqrt of the fraction it carries
statistics(data, scale_factor, add_offset) ==
    LET acc == welford(data, Len(data), scale_factor, add_offset)
    IN  [min_max |-> IF acc.count > 0 THEN Some(<<acc.min, acc.max>>) ELSE None,
         mean |-> IF acc.count > 0 THEN Some(acc.mean_accum) ELSE None,
         std |-> IF std_present(acc.count)
                 THEN Some([sqrt |-> acc_div(acc.m2, acc.count - 1)])
                 ELSE None,
         valid_count |-> acc.count]

\* try_load_coordinate; CoordinateVar without units and long_name
try_load_coordinate(ds, path) ==
    LET found == file_variable(ds, path)
    IN  IF found = None THEN None
        ELSE LET var == found[1]
             IN  IF Len(var.dims) # 1 THEN None
                 ELSE IF var.vartype \notin CoordinateTypes THEN None
                 ELSE IF var.read = None THEN None
                 ELSE Some([values |-> var.read[1]])

\* var_path.trim_start_matches('/').rsplit_once('/').map(|(p, _)| p).unwrap_or("")
group_path(var_path) == SubSeq(var_path, 1, Len(var_path) - 1)

\* the coordinate of one dimension, the root looked up before the group
coordinate_of_root_first(ds, dim_name, var_path) ==
    LET coord_path == group_path(var_path) \o <<dim_name>>
        at_root    == try_load_coordinate(ds, <<dim_name>>)
    IN  IF at_root # None THEN at_root ELSE try_load_coordinate(ds, coord_path)

\* the closure of load_coordinate_variables: the same group first, then the root
coordinate_of(ds, dim_name, var_path) ==
    LET coord_path == group_path(var_path) \o <<dim_name>>
        in_group   == try_load_coordinate(ds, coord_path)
    IN  IF in_group # None THEN in_group ELSE try_load_coordinate(ds, <<dim_name>>)

load_coordinate_variables(ds, dim_names, var_path) ==
    [k \in 1..Len(dim_names) |-> coordinate_of(ds, dim_names[k], var_path)]

read_variable(ds, var_path) ==
    IF ~ds.file_ok THEN NetCDF("Failed to open file")
    ELSE LET found == file_variable(ds, var_path)
         IN  IF found = None THEN NetCDF("Variable not found")
             ELSE LET var          == found[1]
                      shape        == [k \in 1..Len(var.dims) |-> var.dims[k].len]
                      dim_names    == [k \in 1..Len(var.dims) |-> var.dims[k].name]
                      scale_factor == attr_or(var.scale_factor, F(1))
                      add_offset   == attr_or(var.add_offset, F(0))
                      data         == read_variable_array(var, shape)
                  IN  IF ~data.ok THEN data
                      ELSE LET stats == statistics(data.value, scale_factor, add_offset)
                           IN  Ok([shape |-> shape, dim_names |-> dim_names,
                                   data |-> data.value,
                                   scale_factor |-> scale_factor, add_offset |-> add_offset,
                                   min_max |-> stats.min_max, mean |-> stats.mean,
                                   std |-> stats.std, valid_count |-> stats.valid_count,
                                   coordinates |->
                                       load_coordinate_variables(ds, dim_names, var_path)])

\* a variable of a dataset: element type, dimensions, what get_values(..) returns (None
\* when the read fails) and the scale_factor / add_offset attributes
Variable(vartype, dims, read, scale_factor, add_offset) ==
    [vartype |-> vartype, dims |-> dims, read |-> read,
     scale_factor |-> scale_factor, add_offset |-> add_offset]

Dim(name, len) == [name |-> name, len |-> len]

\* the paths of the datasets: a variable temp at the root or in group g (read_variable
\* is asked for either path, so for a path where nothing is stored as well), and the
\* variables named like its dimensions x and y, in the same places
VarPaths == {<<"temp">>, <<"g", "temp">>}
AllPaths == VarPaths \cup {<<"x">>, <<"g", "x">>, <<"y">>, <<"g", "y">>}

\* a dataset with the given variable at var_path and the given variables at the other paths
Dataset(file_ok, var_path, target, others) ==
    [file_ok |-> file_ok,
     entries |-> [p \in AllPaths |->
                      IF p = var_path THEN target
                      ELSE IF p \in DOMAIN others THEN others[p] ELSE None]]

\* raw elements: finite values, small and near the top of the range, NaN, an infinity
RawValues == {F(-1), F(1), F(2), Huge(3), Huge(-3), F64_NAN, F64_INFINITY}

\* attribute texts: absent, a number, inf, a text that does not parse
ScaleAttrs == {None, Some(F(2)), Some(F64_INFINITY), Some([c |-> "text", n |-> 0])}
OffsetAttrs == {None, Some(F(1))}

\* datasets for the statistics: a 1-D f64 variable over x, any buffer up to MaxLen
StatDatasets ==
    {Dataset(TRUE, <<"temp">>,
             Some(Variable("F64", <<Dim("x", Len(data))>>, Some(data), sf, off)),
             << >>) :
        data \in SeqsUpTo(RawValues, MaxLen), sf \in ScaleAttrs, off \in OffsetAttrs}

\* what may be stored under the name of a dimension: nothing, a readable 1-D f64 or i16
\* variable, a 1-D u8 or char variable, a 2-D f64 variable, a 1-D f64 variable whose
\* read fails; the values tell where the variable was stored
CoordCandidates(dim_name, tag) ==
    {None,
     Some(Variable("F64", <<Dim(dim_name, 1)>>, Some(<<F(tag)>>), None, None)),
     Some(Variable("I16", <<Dim(dim_name, 1)>>, Some(<<F(tag + 1)>>), None, None)),
     Some(Variable("U8", <<Dim(dim_name, 1)>>, Some(<<F(tag)>>), None, None)),
     Some(Variable("Char", <<Dim(dim_name, 1)>>, Some(<<F(tag)>>), None, None)),
     Some(Variable("F64", <<Dim(dim_name, 1), Dim("y", 1)>>, Some(<<F(tag)>>), None, None)),
     Some(Variable("F64", <<Dim(dim_name, 1)>>, None, None, None))}

\* the variables stored in the datasets for the coordinates and the failures: 1-D
\* and 2-D readable, char, string, an element type without conversion, a failing read,
\* a buffer shorter than the shape
Targets ==
    {Some(Variable("F64", <<Dim("x", 1)>>, Some(<<F(1)>>), None, None)),
     Some(Variable("I8", <<Dim("y", 1), Dim("x", 2)>>, Some(<<F(1), F(2)>>), None, None)),
     Some(Variable("Char", <<Dim("x", 1)>>, Some(<<F(1)>>), None, None)),
     Some(Variable("String", <<Dim("x", 1)>>, Some(<<F(1)>>), None, None)),
     Some(Variable("Compound", <<Dim("x", 1)>>, Some(<<F(1)>>), None, None)),
     Some(Variable("F64", <<Dim("x", 1)>>, None, None, None)),
     Some(Variable("F64", <<Dim("y", 1), Dim("x", 2)>>, Some(<<F(1)>>), None, None))}

\* datasets for the coordinates and the failures
CoordDatasets ==
    {Dataset(file_ok, var_path, target,
             [p \in {<<"x">>, <<"g", "x">>, <<"y">>, <<"g", "y">>} |->
                  IF p = <<"x">> THEN root_x
                  ELSE IF p = <<"g", "x">> THEN group_x
                  ELSE IF p = <<"y">> THEN root_y
                  ELSE group_y]) :
        file_ok \in BOOLEAN, var_path \in VarPaths, target \in Targets,
        root_x \in CoordCandidates("x", 10), group_x \in CoordCandidates("x", 20),
        root_y \in {None, Some(Variable("F64", <<Dim("y", 1)>>, Some(<<F(30)>>), None, None))},
        group_y \in {None, Some(Variable("F32", <<Dim("y", 1)>>, Some(<<F(40)>>), None, None))}}

InitLoad ==
    /\ data_viewer = DataViewerState_new
    /\ lastOp = "new"
    /\ proj = Idle
    /\ raster = Idle
    /\ calc = Idle
    /\ \E ds \in StatDatasets \cup CoordDatasets, var_path \in VarPaths :
           load = [call |-> "ready", ds |-> ds, var_path |-> var_path, result |-> None]

\* App::toggle_data_viewer: read_variable(&file_path, &node.path)
CallReadVariable ==
    /\ load.call = "ready"
    /\ load' = [load EXCEPT !.call = "read_variable",
                            !.result = read_variable(load.ds, load.var_path)]
    /\ UNCHANGED <<data_viewer, lastOp, proj, raster, calc>>

NextLoad == CallReadVariable

SpecLoad == InitLoad /\ [][NextLoad]_vars

\* the cause of a failure as the taxonomy names it, in the order read_variable meets them
FailureCause(l) ==
    LET found == l.ds.entries[l.var_path]
    IN  IF ~l.ds.file_ok THEN "Io"
        ELSE IF found = None THEN "NotFound"
        ELSE IF found[1].vartype \notin ArrayTypes THEN "UnsupportedType"
        ELSE IF found[1].read = None THEN "Io"
        ELSE IF Len(found[1].read[1]) #
                    total_elements([k \in 1..Len(found[1].dims) |-> found[1].dims[k].len],
                                   Len(found[1].dims))
             THEN "Corrupt"
        ELSE "none"

\* C21: read_variable fails exactly when there is a cause, and the kind of the error is
\* the kind of the cause: NotFound for an absent path, UnsupportedType for a non-numeric
\* element type, Corrupt for a shape that does not match the element count, Io for a
\* failed open or read.
C21_FailuresReportedByKind ==
    load.call = "read_variable" =>
        /\ load.result.ok <=> FailureCause(load) = "none"
        /\ ~load.result.ok => load.result.err.kind = FailureCause(load)

\* the number of elements whose scaled value is finite
ValidCount(v) ==
    Cardinality({k \in 1..Len(v.data) :
                     is_finite(stat_value(v.data[k], v.scale_factor, v.add_offset))})

Loadable(ds, path) ==
    /\ ds.entries[path] # None
    /\ Len(ds.entries[path][1].dims) = 1
    /\ ds.entries[path][1].vartype \in CoordinateTypes
    /\ ds.entries[path][1].read # None

\* the dataset without the variables named like dimensions
WithoutCoordinates(ds) ==
    [ds EXCEPT !.entries = [p \in AllPaths |-> IF p \in VarPaths THEN ds.entries[p] ELSE None]]

\* the finite scaled elements of a variable
FiniteScaled(v) ==
    {stat_value(v.data[k], v.scale_factor, v.add_offset) : k \in
         {j \in 1..Len(v.data) :
              is_finite(stat_value(v.data[j], v.scale_factor, v.add_offset))}}

\* C33: valid_count is the number of finite scaled elements, at most the number of
\* elements; min and max are the smallest and the largest finite scaled element; a
\* mean that is present lies between min and max.
C33_StatisticsAgreeWithReference ==
    (load.call = "read_variable" /\ load.result.ok) =>
        LET v == load.result.value
            S == FiniteScaled(v)
            le(a, b) == a.c # "nan" /\ b.c # "nan" /\ ~acc_lt(b, a)
        IN  /\ v.valid_count = ValidCount(v)
            /\ v.valid_count <= Len(v.data)
            /\ S # {} =>
                   /\ v.min_max # None
                   /\ v.min_max[1][1] \in S /\ v.min_max[1][2] \in S
                   /\ \A e \in S : /\ ~f64_lt(e, v.min_max[1][1])
                                   /\ ~f64_lt(v.min_max[1][2], e)
            /\ (v.min_max # None /\ v.mean # None) =>
                   /\ le(acc_of(v.min_max[1][1]), v.mean[1])
                   /\ le(v.mean[1], acc_of(v.min_max[1][2]))

\* C25: read_variable succeeds or fails, with the same error, as on the dataset without
\* any variable named like a dimension; on success coordinates has one entry per
\* dimension: the loadable 1-D variable of that name in the variable's group, otherwise
\* the one at the root, otherwise none.
C25_CoordinateLookupNeverFails ==
    load.call = "read_variable" =>
        LET bare == read_variable(WithoutCoordinates(load.ds), load.var_path)
        IN  /\ load.result.ok = bare.ok
            /\ ~load.result.ok => load.result = bare
            /\ load.result.ok =>
                   LET v == load.result.value
                   IN  /\ Len(v.coordinates) = Len(v.shape)
                       /\ \A k \in 1..Len(v.shape) :
                              LET own  == SubSeq(load.var_path, 1, Len(load.var_path) - 1)
                                              \o <<v.dim_names[k]>>
                                  root == <<v.dim_names[k]>>
                              IN  v.coordinates[k] =
                                      IF Loadable(load.ds, own)
                                      THEN Some([values |-> load.ds.entries[own][1].read[1]])
                                      ELSE IF Loadable(load.ds, root)
                                      THEN Some([values |-> load.ds.entries[root][1].read[1]])
                                      ELSE None

\* a variable g/temp over (y, x): g/x is a u8 variable and x at the root is f64, so the
\* coordinate of x comes from the root; g/y is loadable, so y comes from the group
C25_Witness ==
    /\ load.call = "read_variable" /\ load.result.ok
    /\ load.var_path = <<"g", "temp">>
    /\ load.result.value.dim_names = <<"y", "x">>
    /\ load.ds.entries[<<"g", "x">>] # None
    /\ load.ds.entries[<<"g", "x">>][1].vartype = "U8"
    /\ load.ds.entries[<<"y">>] # None
    /\ load.result.value.coordinates = <<Some([values |-> <<F(40)>>]), Some([values |-> <<F(10)>>])>>

(***************************************************************************)
(* scale_value / unscale_value in f64 (specification SpecScale).  The      *)
(* values of this part are f64 with their 53-bit significand: a finite     *)
(* value is (hi * 2^53 + n) / d with hi in -1..1 and n, d small, or it is  *)
(* NaN or an infinity.  A sum is rounded to the nearest f64, ties to the   *)
(* even significand: from 2^53 to 2^54 the f64 are the even integers,      *)
(* below 2^53 every integer is an f64.  A quotient of two small integers   *)
(* is kept as the fraction; the f64 quotient equals a small integer r      *)
(* exactly when the fraction does, since any other fraction n/d differs    *)
(* from r by at least 1/d.  Zero has one sign.                             *)
(***************************************************************************)

V(hi, n, d) == [c |-> "fin", hi |-> hi, n |-> n, d |-> d]
V_NAN == [c |-> "nan", hi |-> 0, n |-> 0, d |-> 1]
V_INF(sign) == [c |-> "inf", hi |-> 0, n |-> sign, d |-> 1]

\* the sign of a value
v_sign(a) == IF a.c = "fin" /\ a.hi # 0 THEN Sign(a.hi) ELSE Sign(a.n)

\* hi * 2^53 + n rounded to f64 (round to nearest, ties to even)
round53(hi, n) ==
    CASE hi = 0 -> V(0, n, 1)
      [] hi = 1 -> IF n < 0 \/ n % 2 = 0 THEN V(1, n, 1)
                   ELSE IF n % 4 = 1 THEN V(1, n - 1, 1) ELSE V(1, n + 1, 1)
      [] hi = -1 -> IF n > 0 \/ (-n) % 2 = 0 THEN V(-1, n, 1)
                    ELSE IF (-n) % 4 = 1 THEN V(-1, n + 1, 1) ELSE V(-1, n - 1, 1)

\* a * b for two small integers or non-finite values
v_mul(a, b) ==
    IF a.c = "nan" \/ b.c = "nan" THEN V_NAN
    ELSE IF a.c = "inf" \/ b.c = "inf"
         THEN IF v_sign(a) = 0 \/ v_sign(b) = 0 THEN V_NAN
              ELSE V_INF(v_sign(a) * v_sign(b))
         ELSE V(0, a.n * b.n, 1)

\* a + b for two integers
v_add(a, b) ==
    IF a.c = "nan" \/ b.c = "nan" THEN V_NAN
    ELSE IF a.c = "inf" /\ b.c = "inf" THEN (IF a.n = b.n THEN a ELSE V_NAN)
    ELSE IF a.c = "inf" THEN a
    ELSE IF b.c = "inf" THEN b
    ELSE round53(a.hi + b.hi, a.n + b.n)

v_neg(a) == [a EXCEPT !.hi = -a.hi, !.n = -a.n]

\* a - b
v_sub(a, b) == v_add(a, v_neg(b))

\* a / b for an integer a and a small integer b
v_div(a, b) ==
    IF a.c = "nan" \/ b.c = "nan" THEN V_NAN
    ELSE IF a.c = "inf"
         THEN IF b.c = "inf" THEN V_NAN
              ELSE V_INF(IF v_sign(b) < 0 THEN -a.n ELSE a.n)
    ELSE IF b.c = "inf" THEN V(0, 0, 1)
    ELSE IF b.n = 0
         THEN IF v_sign(a) = 0 THEN V_NAN ELSE V_INF(v_sign(a))
    ELSE V(a.hi * Sign(b.n), a.n * Sign(b.n), b.n * Sign(b.n))

\* a == b on f64
v_eq(a, b) ==
    /\ a.c # "nan" /\ b.c # "nan"
    /\ a.c = b.c
    /\ IF a.c = "inf" THEN a.n = b.n
       ELSE a.hi * b.d = b.hi * a.d /\ a.n * b.d = b.n * a.d

\* LoadedVariable::scale_value in f64
scale_value_f64(scale_factor, add_offset, raw) == v_add(v_mul(raw, scale_factor), add_offset)

\* unscale_value without the subtraction of add_offset
unscale_value_keep_offset(scale_factor, add_offset, scaled) == v_div(scaled, scale_factor)

\* LoadedVariable::unscale_value
unscale_value(scale_factor, add_offset, scaled) ==
    v_div(v_sub(scaled, add_offset), scale_factor)

\* largest magnitude of a raw value and of a scale factor of the round trip
MaxRaw == 3

\* raw values: small integers, NaN, the infinities
CalcRaws == {V(0, n, 1) : n \in (-MaxRaw)..MaxRaw} \cup {V_NAN, V_INF(1), V_INF(-1)}
\* scale factors: zero, small integers, an infinity
CalcScaleFactors == {V(0, n, 1) : n \in (-1)..MaxRaw} \cup {V_INF(1)}
\* offsets: small integers and plus / minus 2^53
CalcOffsets == {V(0, 0, 1), V(0, 1, 1), V(0, -2, 1), V(1, 0, 1), V(-1, 0, 1)}

InitScale ==
    /\ data_viewer = DataViewerState_new
    /\ lastOp = "new"
    /\ proj = Idle
    /\ raster = Idle
    /\ load = Idle
    /\ \E raw \in CalcRaws, sf \in CalcScaleFactors, off \in CalcOffsets :
           calc = [call |-> "ready", raw |-> raw, scale_factor |-> sf, add_offset |-> off,
                   scaled |-> V_NAN, back |-> V_NAN]

CallScaleValue ==
    /\ calc.call = "ready"
    /\ calc' = [calc EXCEPT !.call = "scale_value",
                            !.scaled = scale_value_f64(calc.scale_factor, calc.add_offset,
                                                       calc.raw)]
    /\ UNCHANGED <<data_viewer, lastOp, proj, raster, load>>

CallUnscaleValue ==
    /\ calc.call = "scale_value"
    /\ calc' = [calc EXCEPT !.call = "unscale_value",
                            !.back = unscale_value(calc.scale_factor, calc.add_offset,
                                                   calc.scaled)]
    /\ UNCHANGED <<data_viewer, lastOp, proj, raster, load>>

NextScale == CallScaleValue \/ CallUnscaleValue

SpecScale == InitScale /\ [][NextScale]_vars

\* raw, scale_factor and add_offset are finite and scale_factor is not zero
FiniteRoundTrip ==
    /\ calc.raw.c = "fin" /\ calc.add_offset.c = "fin"
    /\ calc.scale_factor.c = "fin" /\ calc.scale_factor.n # 0

\* C23 as stated, for finite values: unscale_value(scale_value(raw)) == raw for any raw,
\* any add_offset and any non-zero scale_factor.
C23_RoundTripExact ==
    (calc.call = "unscale_value" /\ FiniteRoundTrip) => v_eq(calc.back, calc.raw)

\* raw * scale_factor + add_offset is an f64: the sum is not rounded (the product of two
\* small integers never is)
SumExact ==
    calc.scaled = V(calc.add_offset.hi, calc.raw.n * calc.scale_factor.n + calc.add_offset.n, 1)

\* C23 amended: for finite raw, add_offset and non-zero scale_factor,
\* unscale_value(scale_value(raw)) == raw whenever raw * scale_factor + add_offset is
\* computed without rounding.
C23_RoundTripWhenExact ==
    (calc.call = "unscale_value" /\ FiniteRoundTrip /\ SumExact) => v_eq(calc.back, calc.raw)

\* raw 1, scale_factor 2, add_offset 2^53: the sum 2^53 + 2 is an f64 and 1 comes back
C23_Witness ==
    /\ calc.call = "unscale_value"
    /\ calc.raw = V(0, 1, 1)
    /\ calc.scale_factor = V(0, 2, 1)
    /\ calc.add_offset = V(1, 0, 1)
    /\ calc.scaled = V(1, 2, 1)
    /\ v_eq(calc.back, calc.raw)

(***************************************************************************)
(* ColorPalette::color (specification SpecPalette).  The argument is       *)
(* t = k / TDen with TDen a power of two, so every product, sum and        *)
(* quotient of the four colormaps is exact in f64; a value is written as   *)
(* its numerator over TDen.  `as u8` truncates toward zero and saturates.  *)
(***************************************************************************)

\* t ranges over the multiples of 2^-TBits
TBits == 4
\* and from TOver steps below 0 to TOver steps above 1
TOver == 2

TDen == 2 ^ TBits
\* 0.5
THalf == TDen \div 2

\* f64 as u8
as_u8(num) == IF num <= 0 THEN 0 ELSE Min(num \div TDen, 255)

\* Color::Rgb(r as u8, g as u8, b as u8)
Rgb(v) == <<as_u8(v[1]), as_u8(v[2]), as_u8(v[3])>>

\* f64::clamp(0.0, 1.0)
clamp01(t) == IF t < 0 THEN 0 ELSE IF t > TDen THEN TDen ELSE t

\* viridis_color, the branches t < 0.5
viridis_low(t) ==
    <<68 * TDen + t * 2 * (33 - 68),
      1 * TDen + t * 2 * (104 - 1),
      84 * TDen + t * 2 * (109 - 84)>>

\* the else branches with t in the place of t - 0.5
viridis_high_from_zero(t) ==
    <<33 * TDen + t * 2 * (253 - 33),
      104 * TDen + t * 2 * (231 - 104),
      109 * TDen + t * 2 * (37 - 109)>>

\* viridis_color, the else branches
viridis_high(t) ==
    <<33 * TDen + (t - THalf) * 2 * (253 - 33),
      104 * TDen + (t - THalf) * 2 * (231 - 104),
      109 * TDen + (t - THalf) * 2 * (37 - 109)>>

viridis_color(t) == Rgb(IF 2 * t < TDen THEN viridis_low(t) ELSE viridis_high(t))

plasma_color(t) ==
    Rgb(IF 2 * t < TDen
        THEN <<13 * TDen + t * 2 * (180 - 13),
               8 * TDen + t * 2 * (54 - 8),
               135 * TDen + t * 2 * (121 - 135)>>
        ELSE <<180 * TDen + (t - THalf) * 2 * (240 - 180),
               54 * TDen + (t - THalf) * 2 * (175 - 54),
               121 * TDen + (t - THalf) * 2 * (12 - 121)>>)

rainbow_color(t) ==
    LET h    == (TDen - t) * 240
        q    == h \div 60
        r2   == (q % (2 * TDen)) - TDen
        c    == TDen
        x    == TDen - (IF r2 < 0 THEN -r2 ELSE r2)
        rgb  == IF h < 60 * TDen THEN <<c, x, 0>>
                ELSE IF h < 120 * TDen THEN <<x, c, 0>>
                ELSE IF h < 180 * TDen THEN <<0, c, x>>
                ELSE IF h < 240 * TDen THEN <<0, x, c>>
                ELSE IF h < 300 * TDen THEN <<x, 0, c>>
                ELSE <<c, 0, x>>
    IN  Rgb(<<rgb[1] * 255, rgb[2] * 255, rgb[3] * 255>>)

bluered_color(t) ==
    IF 2 * t < TDen
    THEN <<as_u8(t * 2 * 255), as_u8(t * 2 * 255), 255>>
    ELSE <<255, as_u8((TDen - (t - THalf) * 2) * 255), as_u8((TDen - (t - THalf) * 2) * 255)>>

ColorPalettes == {"Viridis", "Plasma", "Rainbow", "BlueRed"}

\* ColorPalette::color
color(palette, t) ==
    LET tc == clamp01(t)
    IN  CASE palette = "Viridis" -> viridis_color(tc)
          [] palette = "Plasma" -> plasma_color(tc)
          [] palette = "Rainbow" -> rainbow_color(tc)
          [] palette = "BlueRed" -> bluered_color(tc)

InitPalette ==
    /\ data_viewer = DataViewerState_new
    /\ lastOp = "new"
    /\ proj = Idle
    /\ raster = Idle
    /\ load = Idle
    /\ \E palette \in ColorPalettes, t \in (-TOver)..(TDen + TOver) :
           calc = [call |-> "ready", palette |-> palette, t |-> t, rgb |-> <<0, 0, 0>>]

\* get_color of the views: palette.color(t)
CallColor ==
    /\ calc.call = "ready"
    /\ calc' = [calc EXCEPT !.call = "color", !.rgb = color(calc.palette, calc.t)]
    /\ UNCHANGED <<data_viewer, lastOp, proj, raster, load>>

NextPalette == CallColor

SpecPalette == InitPalette /\ [][NextPalette]_vars

\* C24: color(Viridis, 0) is (68, 1, 84), color(Viridis, 1) is (253, 231, 37),
\* color(BlueRed, 0.5) is (255, 255, 255), and both segments of Viridis give
\* (33, 104, 109) at t = 0.5.
C24_PaletteEndpointsExact ==
    calc.call = "color" =>
        /\ (calc.palette = "Viridis" /\ calc.t = 0) => calc.rgb = <<68, 1, 84>>
        /\ (calc.palette = "Viridis" /\ calc.t = TDen) => calc.rgb = <<253, 231, 37>>
        /\ (calc.palette = "BlueRed" /\ calc.t = THalf) => calc.rgb = <<255, 255, 255>>
        /\ (calc.palette = "Viridis" /\ calc.t = THalf) =>
               /\ calc.rgb = <<33, 104, 109>>
               /\ Rgb(viridis_low(calc.t)) = <<33, 104, 109>>
               /\ Rgb(viridis_high(calc.t)) = <<33, 104, 109>>

\* Viridis at t = 1
C24_Witness ==
    /\ calc.call = "color"
    /\ calc.palette = "Viridis"
    /\ calc.t = TDen
    /\ calc.rgb = <<253, 231, 37>>

\* max(1, floor(n * scale)) in exact arithmetic
ExactExtent(n, scale) == Max((n * scale[1]) \div scale[2], 1)

\* C28: the displayed block fits the canvas: 1 <= disp_rows <= 2H and 1 <= disp_cols <= W
\* (each at most max(1, floor(n * scale)) of exact arithmetic), char_rows =
\* ceil(disp_rows / 2) <= H, neither centering subtraction underflows, the block with
\* its offsets lies inside the canvas and every cell of it is drawn.
C28_BlockFitsCanvas ==
    raster.call \in {"layout", "render"} =>
        /\ 1 <= raster.disp_rows /\ raster.disp_rows <= 2 * raster.height
        /\ 1 <= raster.disp_cols /\ raster.disp_cols <= raster.width
        /\ raster.disp_rows <= ExactExtent(raster.rows, raster.scale)
        /\ raster.disp_cols <= ExactExtent(raster.cols, raster.scale)
        /\ 2 * raster.char_rows \in {raster.disp_rows, raster.disp_rows + 1}
        /\ raster.char_rows <= raster.height
        /\ raster.width - raster.disp_cols >= 0
        /\ raster.height - raster.char_rows >= 0
        /\ raster.offset_x_chars >= 0
        /\ raster.offset_y_chars >= 0
        /\ raster.offset_x_chars + raster.disp_cols <= raster.width
        /\ raster.offset_y_chars + raster.char_rows <= raster.height
        /\ raster.call = "render" =>
               /\ DOMAIN raster.cells =
                      (0..(raster.char_rows - 1)) \X (0..(raster.disp_cols - 1))
               /\ \A c \in DOMAIN raster.cells : raster.cells[c].drawn

\* 1 x 23 on a canvas of 13 columns by 2 rows: the f64 product 23 * (13/23) is below 13,
\* the block is 12 columns wide
C28_Witness ==
    /\ raster.call = "render"
    /\ raster.rows = 1 /\ raster.cols = 23
    /\ raster.width = 13 /\ raster.height = 2
    /\ raster.disp_rows = 1 /\ raster.disp_cols = 12
    /\ raster.char_rows = 1
    /\ raster.offset_x_chars = 0 /\ raster.offset_y_chars = 0

\* the source rows read for pixel row py (top or bottom of its character row), by any cell
RowsReadFor(py) ==
    {raster.cells[c].top_row_idx : c \in {d \in DOMAIN raster.cells : raster.cells[d].top_y = py}}
    \cup {raster.cells[c].bottom[1].row_idx :
              c \in {d \in DOMAIN raster.cells :
                         raster.cells[d].bottom # None /\ raster.cells[d].bottom[1].y = py}}

\* the source columns read for pixel column px
ColsReadFor(px) ==
    {raster.cells[c].col_idx : c \in {d \in DOMAIN raster.cells : d[2] = px}}

\* the clamp changes no index and every index is inside the projection
SamplesInRange ==
    \A c \in DOMAIN raster.cells :
        LET cell == raster.cells[c]
        IN  /\ cell.col_idx = cell.col_raw /\ cell.col_idx \in 0..(raster.cols - 1)
            /\ cell.top_row_idx = cell.top_raw /\ cell.top_row_idx \in 0..(raster.rows - 1)
            /\ cell.bottom # None =>
                   /\ cell.bottom[1].row_idx = cell.bottom[1].raw
                   /\ cell.bottom[1].row_idx \in 0..(raster.rows - 1)

\* a later pixel never reads an earlier source row / column
SamplesMonotone ==
    /\ \A p, q \in 0..(raster.disp_rows - 1) :
           p <= q => \A r1 \in RowsReadFor(p), r2 \in RowsReadFor(q) : r1 <= r2
    /\ \A p, q \in 0..(raster.disp_cols - 1) :
           p <= q => \A c1 \in ColsReadFor(p), c2 \in ColsReadFor(q) : c1 <= c2

\* without downsampling every source row and column is read
SamplesCover ==
    /\ raster.disp_rows >= raster.rows =>
           \A r \in 0..(raster.rows - 1) :
               \E py \in 0..(raster.disp_rows - 1) : r \in RowsReadFor(py)
    /\ raster.disp_cols >= raster.cols =>
           \A c \in 0..(raster.cols - 1) :
               \E px \in 0..(raster.disp_cols - 1) : c \in ColsReadFor(px)

\* pixel (py, px) reads source cell (floor(py * R / disp_rows), floor(px * C / disp_cols))
SamplesNearest ==
    /\ \A py \in 0..(raster.disp_rows - 1) :
           RowsReadFor(py) = {(py * raster.rows) \div raster.disp_rows}
    /\ \A px \in 0..(raster.disp_cols - 1) :
           ColsReadFor(px) = {(px * raster.cols) \div raster.disp_cols}

\* C29: every displayed pixel (py, px) reads source cell (floor(py * R / disp_rows),
\* floor(px * C / disp_cols)); the index is in range before the clamp, non-decreasing in
\* py and px, and with disp_rows >= R and disp_cols >= C every source row and column is
\* read.
C29_NearestNeighbourSampling ==
    raster.call = "render" =>
        /\ SamplesNearest
        /\ SamplesInRange
        /\ SamplesMonotone
        /\ SamplesCover

\* C30: the block has ceil(disp_rows / 2) character rows; character row k takes its
\* foreground from pixel row 2k and its background from pixel row 2k + 1; the background
\* is the neutral fill exactly in the last character row of a block with an odd number
\* of pixel rows; so every pixel row is used by exactly one character row.
C30_HalfBlockPacking ==
    raster.call = "render" =>
        /\ 2 * raster.char_rows >= raster.disp_rows
        /\ 2 * (raster.char_rows - 1) < raster.disp_rows
        /\ DOMAIN raster.cells = (0..(raster.char_rows - 1)) \X (0..(raster.disp_cols - 1))
        /\ \A c \in DOMAIN raster.cells :
               LET cell == raster.cells[c]
                   k    == c[1]
               IN  /\ cell.top_y = 2 * k
                   /\ cell.top_y < raster.disp_rows
                   /\ cell.bottom # None => cell.bottom[1].y = 2 * k + 1
                   /\ cell.bottom = None <=>
                          (raster.disp_rows % 2 = 1 /\ k = raster.char_rows - 1)
        /\ \A py \in 0..(raster.disp_rows - 1), px \in 0..(raster.disp_cols - 1) :
               Cardinality({k \in 0..(raster.char_rows - 1) :
                                \/ raster.cells[<<k, px>>].top_y = py
                                \/ /\ raster.cells[<<k, px>>].bottom # None
                                   /\ raster.cells[<<k, px>>].bottom[1].y = py}) = 1

\* a 3 x 2 projection on a canvas of 2 columns by 2 rows, shown as 3 pixel rows: two
\* character rows, the second with a top pixel only
C30_Witness ==
    /\ raster.call = "render"
    /\ raster.rows = 3 /\ raster.cols = 2
    /\ raster.disp_rows = 3 /\ raster.char_rows = 2
    /\ raster.cells[<<0, 0>>].bottom # None
    /\ raster.cells[<<1, 0>>].top_y = 2
    /\ raster.cells[<<1, 0>>].bottom = None

\* the source cell the raster reads for pixel (py, px)
SampledCell(py, px) ==
    LET cell == raster.cells[<<py \div 2, px>>]
    IN  <<IF py % 2 = 0 THEN cell.top_row_idx ELSE cell.bottom[1].row_idx, cell.col_idx>>

\* the marker pixel is floor((r + 0.5) * disp_rows / R), floor((c + 0.5) * disp_cols / C)
MarkerIsMidpoint ==
    LET m == raster.marker[1]
    IN  /\ m.cy = ((2 * m.cursor_row + 1) * raster.disp_rows) \div (2 * raster.rows)
        /\ m.cx = ((2 * m.cursor_col + 1) * raster.disp_cols) \div (2 * raster.cols)

\* the marker pixel lies inside the displayed block, and its character cell is drawn
MarkerInsideBlock ==
    LET m == raster.marker[1]
    IN  /\ m.cy < raster.disp_rows /\ m.cx < raster.disp_cols
        /\ m.cy_raw = m.cy /\ m.cx_raw = m.cx
        /\ m.drawn

\* the marker pixel shows the cursor's cell
MarkerOnOwnCell ==
    LET m == raster.marker[1]
    IN  /\ SampledCell(m.cy, m.cx) = <<m.cursor_row, m.cursor_col>>
        /\ (m.cy * raster.rows) \div raster.disp_rows = m.cursor_row
        /\ (m.cx * raster.cols) \div raster.disp_cols = m.cursor_col

\* C31: with disp_rows >= R and disp_cols >= C the marker pixel of cursor (r, c) is
\* (floor((r + 0.5) * disp_rows / R), floor((c + 0.5) * disp_cols / C)), lies inside the
\* displayed block, and the source cell sampled for that pixel is (r, c).
C31_CrosshairOnOwnCell ==
    (/\ raster.call = "cursor"
     /\ raster.disp_rows >= raster.rows
     /\ raster.disp_cols >= raster.cols) =>
        /\ MarkerIsMidpoint
        /\ MarkerInsideBlock
        /\ MarkerOnOwnCell

(***************************************************************************)
(* Further properties of the viewer state machine (specification Spec)     *)
(***************************************************************************)

\* a viewer state together with the two fields of DataViewerState the state machine
\* leaves out, color_palette and apply_scale_offset
WithDisplaySettings(s, palette, apply_scale) ==
    [variable           |-> s.variable,
     view_mode          |-> s.view_mode,
     color_palette      |-> palette,
     scroll             |-> s.scroll,
     slicing            |-> s.slicing,
     visible            |-> s.visible,
     error              |-> s.error,
     plot_cursor        |-> s.plot_cursor,
     heat_cursor_row    |-> s.heat_cursor_row,
     heat_cursor_col    |-> s.heat_cursor_col,
     apply_scale_offset |-> apply_scale]

\* C35: cycle_view_mode changes the view mode and at most the active selector: slice
\* indices, display dimensions, plot cursor, heatmap crosshair, scroll position, palette
\* and scale flag (and variable, visibility and error) are those of the state it is
\* called in, whatever the palette and the flag are.
C35_CycleViewModeFrame ==
    \A palette \in ColorPalettes, apply_scale \in BOOLEAN :
        LET before == WithDisplaySettings(data_viewer, palette, apply_scale)
            after  == cycle_view_mode(before)
        IN  /\ after.view_mode = ViewMode_next(before.view_mode)
            /\ after.slicing.slice_indices = before.slicing.slice_indices
            /\ after.slicing.display_dims = before.slicing.display_dims
            /\ after.plot_cursor = before.plot_cursor
            /\ after.heat_cursor_row = before.heat_cursor_row
            /\ after.heat_cursor_col = before.heat_cursor_col
            /\ after.scroll = before.scroll
            /\ after.color_palette = palette
            /\ after.apply_scale_offset = apply_scale
            /\ after.variable = before.variable
            /\ after.visible = before.visible
            /\ after.error = before.error
            /\ DOMAIN after = DOMAIN before

\* the table was scrolled, the plot cursor and the crosshair were moved and a slice was
\* advanced before the mode was cycled back to Table: all of them are still there
C35_Witness ==
    /\ lastOp = "cycle_view_mode"
    /\ Loaded /\ Rank = 3
    /\ data_viewer.view_mode = "Table"
    /\ data_viewer.scroll = [row |-> 1, col |-> 1]
    /\ data_viewer.plot_cursor = 1
    /\ data_viewer.heat_cursor_row = 1
    /\ data_viewer.heat_cursor_col = 1
    /\ Slicing.slice_indices[1] = 1
    /\ Slicing.active_dim_selector = Some(0)

\* C37: with a variable of rank >= 2 loaded (every extent >= 1), the table scroll offset
\* is inside the current view: scroll.row <= shape[display_dims.0] - 1 and
\* scroll.col <= shape[display_dims.1] - 1.
C37_ScrollInsideView ==
    (Loaded /\ Rank >= 2 /\ AllExtentsPositive) =>
        /\ data_viewer.scroll.row <= Var.shape[Slicing.display_dims[1] + 1] - 1
        /\ data_viewer.scroll.col <= Var.shape[Slicing.display_dims[2] + 1] - 1

\* a call of get_1d_slice / get_2d_slice, by the dimension indices it is given
Get1dSlice(dim) == [call |-> "get_1d_slice", dims |-> <<dim>>]
Get2dSlice(dim_y, dim_x) == [call |-> "get_2d_slice", dims |-> <<dim_y, dim_x>>]

\* draw_table_view: the projection calls of one frame (ranks 0 and 1 read the buffer)
draw_table_view(s, var) ==
    IF ndim(var) = 0 THEN {}
    ELSE IF ndim(var) = 1 THEN {}
    ELSE {Get2dSlice(s.slicing.display_dims[1], s.slicing.display_dims[2])}

\* draw_plot1d_view
draw_plot1d_view(s, var) ==
    IF ndim(var) <= 1 THEN {} ELSE {Get1dSlice(s.slicing.display_dims[1])}

\* draw_heatmap_view: returns before the projection below rank 2
draw_heatmap_view(s, var) ==
    IF ndim(var) < 2 THEN {}
    ELSE {Get2dSlice(s.slicing.display_dims[1], s.slicing.display_dims[2])}

\* draw_data_viewer: the view of the current mode, when visible with a variable
draw_data_viewer(s) ==
    IF ~s.visible \/ s.error # None \/ s.variable = None THEN {}
    ELSE CASE s.view_mode = "Table"   -> draw_table_view(s, s.variable[1])
           [] s.view_mode = "Plot1D"  -> draw_plot1d_view(s, s.variable[1])
           [] s.view_mode = "Heatmap" -> draw_heatmap_view(s, s.variable[1])

\* DataViewerState::copy_visible_to_clipboard (Ctrl-c), when the clipboard opens
copy_visible_to_clipboard(s) ==
    IF s.variable = None THEN {}
    ELSE IF s.view_mode = "Plot1D"
         THEN IF ndim(s.variable[1]) <= 1 THEN {}
              ELSE {Get1dSlice(s.slicing.display_dims[1])}
         ELSE {Get2dSlice(s.slicing.display_dims[1], s.slicing.display_dims[2])}

\* every dimension index of the requests is below the rank of the loaded variable
DimsBelowRank(requests) ==
    \A req \in requests : \A k \in DOMAIN req.dims : req.dims[k] < Rank

\* the frame drawn in any reachable state asks only for existing dimensions
DrawDimsBelowRank == Loaded => DimsBelowRank(draw_data_viewer(data_viewer))

\* C38: with a variable of any rank loaded, every get_1d_slice / get_2d_slice call of the
\* frame drawn in the current view mode and of the clipboard copy passes dimension
\* indices strictly below the rank.
C38_ProjectionDimsBelowRank ==
    Loaded =>
        /\ DimsBelowRank(draw_data_viewer(data_viewer))
        /\ DimsBelowRank(copy_visible_to_clipboard(data_viewer))

(***************************************************************************)
(* DimensionCalculator (src/src/util/dimension_calculator.rs), built from   *)
(* the rank, view mode and display dimensions of the viewer                *)
(***************************************************************************)

\* DimensionCalculator::new
DimensionCalculator_new(n, view_mode, display_dims) ==
    [ndim |-> n, view_mode |-> view_mode, display_dims |-> display_dims]

\* DimensionCalculator::get_plot_dimension
get_plot_dimension(c) == IF c.ndim <= 1 THEN 0 ELSE c.display_dims[2]

\* (0..ndim).filter(keep).collect(), from dimension i on
RECURSIVE filter_dims(_, _, _)
filter_dims(n, excluded, i) ==
    IF i >= n THEN << >>
    ELSE (IF i \notin excluded THEN <<i>> ELSE << >>) \o filter_dims(n, excluded, i + 1)

\* DimensionCalculator::get_slice_dimensions
get_slice_dimensions(c) ==
    IF c.view_mode = "Plot1D"
    THEN LET plot_dim == get_plot_dimension(c)
         IN  filter_dims(c.ndim, {plot_dim}, 0)
    ELSE filter_dims(c.ndim, {c.display_dims[1], c.display_dims[2]}, 0)

\* DimensionCalculator::get_display_dimensions
get_display_dimensions(c) ==
    IF c.view_mode = "Plot1D" THEN <<get_plot_dimension(c)>>
    ELSE IF c.ndim >= 2 THEN <<c.display_dims[1], c.display_dims[2]>>
    ELSE IF c.ndim = 1 THEN <<0>>
    ELSE << >>

\* the elements of a sequence
Range(seq) == {seq[k] : k \in DOMAIN seq}

\* the calculator of the current viewer state
Calculator == DimensionCalculator_new(Rank, data_viewer.view_mode, Slicing.display_dims)

\* the dimensions the viewer slices: those next_dim_selector cycles through
ViewerSliceDims == Range(slice_dims(Slicing, Rank, data_viewer.view_mode = "Plot1D"))

\* C36: with a variable loaded (every extent >= 1), get_slice_dimensions returns the dimensions the viewer
\* slices (those next_dim_selector cycles through), get_display_dimensions the remaining
\* ones, and in Plot1D with rank >= 2 the one displayed dimension is display_dims.0, the
\* dimension draw_plot1d_view passes to get_1d_slice.
C36_CalculatorAgreesWithViewer ==
    (Loaded /\ AllExtentsPositive) =>
        /\ Range(get_slice_dimensions(Calculator)) = ViewerSliceDims
        /\ Range(get_display_dimensions(Calculator)) \cap (0..(Rank - 1)) =
               (0..(Rank - 1)) \ ViewerSliceDims
        /\ (data_viewer.view_mode = "Plot1D" /\ Rank >= 2) =>
               /\ get_display_dimensions(Calculator) = <<Slicing.display_dims[1]>>
               /\ draw_plot1d_view(data_viewer, Var) =
                      {Get1dSlice(get_display_dimensions(Calculator)[1])}

(***************************************************************************)
(* The colours of draw_heatmap_view (specification SpecHeatColor): the     *)
(* range of the finite cells of a projection and the normalised value t    *)
(* get_color passes to the palette.  A finite cell is n + e * 2^-34 for    *)
(* small integers n and e (class "fin"; such values, their differences and  *)
(* a quotient by 1.0 are exact in f64) or n * 2^1022 (class "huge", as in  *)
(* read_variable); a quotient of two finite values is kept as the pair of  *)
(* its terms, since only its sign and its place relative to 1 are used.    *)
(* A colour is named by the t it is computed from.                         *)
(***************************************************************************)

\* the f64 n + e * 2^-34
Cell(n, e) == [c |-> "fin", n |-> n, e |-> e]

\* a value of the loader as a cell
cell_of(v) == [c |-> v.c, n |-> v.n, e |-> 0]

\* a < b on f64 (false when either is NaN)
cell_lt(a, b) ==
    LET tier(x) == IF x.c = "inf" THEN 2 * x.n ELSE IF x.c = "huge" THEN Sign(x.n) ELSE 0
    IN  IF a.c = "nan" \/ b.c = "nan" THEN FALSE
        ELSE IF tier(a) # tier(b) THEN tier(a) < tier(b)
        ELSE a.c # "inf" /\ (a.n < b.n \/ (a.n = b.n /\ a.e < b.e))

cell_is_zero(a) == a.c = "fin" /\ a.n = 0 /\ a.e = 0

cell_neg(a) == [a EXCEPT !.n = 0 - a.n, !.e = 0 - a.e]

\* f64 subtraction
cell_sub(a, b) ==
    IF a.c = "nan" \/ b.c = "nan" THEN cell_of(F64_NAN)
    ELSE IF a.c = "inf" /\ b.c = "inf"
         THEN (IF a.n = b.n THEN cell_of(F64_NAN) ELSE a)
    ELSE IF a.c = "inf" THEN a
    ELSE IF b.c = "inf" THEN cell_neg(b)
    ELSE IF a.c = "huge" /\ b.c = "huge"
         THEN (IF a.n = b.n THEN Cell(0, 0)
               ELSE IF Abs(a.n - b.n) >= HugeLimit
                    THEN [c |-> "inf", n |-> Sign(a.n - b.n), e |-> 0]
               ELSE [c |-> "huge", n |-> a.n - b.n, e |-> 0])
    ELSE IF a.c = "huge" THEN a
    ELSE IF b.c = "huge" THEN cell_neg(b)
    ELSE Cell(a.n - b.n, a.e - b.e)

\* f64::abs
cell_abs(a) == IF a.c # "nan" /\ cell_lt(a, Cell(0, 0)) THEN cell_neg(a) ELSE a

\* the largest e with e * 2^-34 < 1e-10 (2^-34 is 5.8e-11)
EpsUnits == 1

\* a < 1e-10
below_epsilon(a) ==
    IF a.c # "fin" THEN cell_lt(a, Cell(0, 0))
    ELSE a.n < 0 \/ (a.n = 0 /\ a.e <= EpsUnits)

\* the sign of a finite or infinite value
cell_sign(a) == IF a.n # 0 THEN Sign(a.n) ELSE Sign(a.e)

\* f64 division: NaN, an infinity, or the quotient of two finite values, b not zero
cell_div(a, b) ==
    IF a.c = "nan" \/ b.c = "nan" THEN [c |-> "nan"]
    ELSE IF a.c = "inf" /\ b.c = "inf" THEN [c |-> "nan"]
    ELSE IF a.c = "inf"
         THEN [c |-> "inf", n |-> a.n * (IF cell_sign(b) < 0 THEN -1 ELSE 1)]
    ELSE IF b.c = "inf" THEN [c |-> "quot", num |-> Cell(0, 0), den |-> Cell(1, 0)]
    ELSE IF cell_is_zero(b)
         THEN (IF cell_is_zero(a) THEN [c |-> "nan"] ELSE [c |-> "inf", n |-> cell_sign(a)])
    ELSE IF a.c = "huge" /\ b.c = "fin" /\ b.n = 0
         THEN [c |-> "inf", n |-> cell_sign(a) * cell_sign(b)]
    ELSE [c |-> "quot", num |-> a, den |-> b]

\* t < 0 and t > 1 for a quotient or an infinity
quot_negative(t) ==
    IF t.c = "inf" THEN t.n < 0 ELSE cell_sign(t.num) * cell_sign(t.den) < 0

quot_above_one(t) ==
    IF t.c = "inf" THEN t.n > 0
    ELSE /\ cell_sign(t.num) * cell_sign(t.den) > 0
         /\ cell_lt(cell_abs(t.den), cell_abs(t.num))

\* f64::clamp(0.0, 1.0): NaN stays NaN
clamp_unit(t) ==
    IF t.c = "nan" THEN t
    ELSE IF quot_negative(t) THEN [c |-> "quot", num |-> Cell(0, 0), den |-> Cell(1, 0)]
    ELSE IF quot_above_one(t) THEN [c |-> "quot", num |-> Cell(1, 0), den |-> Cell(1, 0)]
    ELSE t

\* data_2d.iter().flatten()
flatten(data_2d) ==
    LET cols == Len(data_2d[1])
    IN  [k \in 1..(Len(data_2d) * cols) |->
             data_2d[((k - 1) \div cols) + 1][((k - 1) % cols) + 1]]

RECURSIVE fold_min_max(_, _)
\* .filter(|v| v.is_finite()).fold((INFINITY, NEG_INFINITY), |(min, max), &v|
\* (min.min(v), max.max(v))) over the first k cells
fold_min_max(cells, k) ==
    IF k = 0 THEN <<cell_of(F64_INFINITY), cell_of(F64_NEG_INFINITY)>>
    ELSE LET acc == fold_min_max(cells, k - 1)
             v   == cells[k]
         IN  IF ~is_finite(v) THEN acc
             ELSE <<IF cell_lt(v, acc[1]) THEN v ELSE acc[1],
                    IF cell_lt(acc[2], v) THEN v ELSE acc[2]>>

\* the range the cells are normalised by
heat_range(min_val, max_val) ==
    LET range == cell_sub(max_val, min_val)
    IN  IF below_epsilon(cell_abs(range)) THEN Cell(1, 0) ELSE range

\* get_color: the palette's colour of t, or colors.gray
get_color(data_2d, min_val, range, row_idx, col_idx) ==
    LET raw_val == data_2d[row_idx + 1][col_idx + 1]
    IN  IF is_finite(raw_val)
        THEN [kind |-> "palette", t |-> clamp_unit(cell_div(cell_sub(raw_val, min_val), range))]
        ELSE [kind |-> "gray"]

\* the cells of a projection: equal, apart by less and by more than 1e-10, near the
\* ends of the f64 range, not finite
HeatValues ==
    {Cell(0, 0), Cell(0, 1), Cell(0, 2), Cell(1, 0), cell_of(Huge(3)), cell_of(Huge(-3)),
     cell_of(F64_NAN), cell_of(F64_INFINITY)}

\* the projections of at most MaxLen cells, row by row
HeatGrids ==
    {[i \in 1..rows |-> SubSeq(s, (i - 1) * (Len(s) \div rows) + 1, i * (Len(s) \div rows))] :
         <<s, rows>> \in {x \in (SeqsUpTo(HeatValues, MaxLen) \ {<< >>}) \X (1..MaxLen) :
                           Len(x[1]) % x[2] = 0}}

\* data_2d is not empty and neither is its first row: draw_heatmap_view returns before
\* the range is computed otherwise
InitHeatColor ==
    /\ data_viewer = DataViewerState_new
    /\ lastOp = "new"
    /\ proj = Idle
    /\ raster = Idle
    /\ load = Idle
    /\ \E data_2d \in HeatGrids :
           calc = [call |-> "ready", data_2d |-> data_2d,
                   min_val |-> Cell(0, 0), max_val |-> Cell(0, 0), range |-> Cell(0, 0),
                   colors |-> << >>]

\* draw_heatmap_view: min_val, max_val, range and the colour of every cell
HeatColors ==
    /\ calc.call = "ready"
    /\ LET cells   == flatten(calc.data_2d)
           min_max == fold_min_max(cells, Len(cells))
           range   == heat_range(min_max[1], min_max[2])
       IN  calc' = [calc EXCEPT
                        !.call = "get_color",
                        !.min_val = min_max[1],
                        !.max_val = min_max[2],
                        !.range = range,
                        !.colors = [pos \in (0..(Len(calc.data_2d) - 1))
                                            \X (0..(Len(calc.data_2d[1]) - 1)) |->
                                        get_color(calc.data_2d, min_max[1], range,
                                                  pos[1], pos[2])]]
    /\ UNCHANGED <<data_viewer, lastOp, proj, raster, load>>

NextHeatColor == HeatColors

SpecHeatColor == InitHeatColor /\ [][NextHeatColor]_vars

\* the finite cells of the projection
FiniteCells ==
    {calc.data_2d[i][j] : <<i, j>> \in {x \in (1..Len(calc.data_2d)) \X (1..Len(calc.data_2d[1])) :
                                            is_finite(calc.data_2d[x[1]][x[2]])}}

\* the largest of the finite cells less the smallest is below 1e-10
NearlyConstant ==
    /\ FiniteCells # {}
    /\ LET lo == CHOOSE x \in FiniteCells : \A y \in FiniteCells : ~cell_lt(y, x)
           hi == CHOOSE x \in FiniteCells : \A y \in FiniteCells : ~cell_lt(x, y)
       IN  below_epsilon(cell_sub(hi, lo))

\* t is a number of [0, 1]
InUnit(t) == t.c = "quot" /\ ~quot_negative(t) /\ ~quot_above_one(t)

\* a nearly constant field is normalised by a positive constant
RangeReplaced == NearlyConstant => calc.range = Cell(1, 0)

\* every finite cell of a nearly constant field gets t = 0
ConstantFieldAtZero ==
    NearlyConstant =>
        \A pos \in DOMAIN calc.colors :
            calc.colors[pos].kind = "palette" =>
                /\ calc.colors[pos].t.c = "quot"
                /\ cell_is_zero(calc.colors[pos].t.num)

\* every t passed to the palette lies in [0, 1]
PaletteArgumentInUnit ==
    \A pos \in DOMAIN calc.colors :
        calc.colors[pos].kind = "palette" => InUnit(calc.colors[pos].t)

\* C32: when the finite cells satisfy max - min < 1e-10 the denominator is replaced by
\* a positive constant and every finite cell is mapped to t = 0, hence to one colour;
\* every t passed to the palette lies in [0, 1].
C32_ConstantFieldOneColour ==
    calc.call = "get_color" =>
        /\ RangeReplaced
        /\ ConstantFieldAtZero
        /\ PaletteArgumentInUnit

====
